---- MODULE Spec2Model ----
(***************************************************************************)
(* FanboxArchive: the staged ingestion pipeline (creator discovery, post   *)
(* discovery, post fetch, file download, persistence), the checkpoint      *)
(* cache and the failed-post ledger, as a state machine.                   *)
(***************************************************************************)
EXTENDS Integers, Sequences, FiniteSets, TLC

(***************************************************************************)
(* Bounds of the model.                                                    *)
(***************************************************************************)
MaxPosts == 2
MaxLedger == 1
MaxUrls == 2
MaxPlacements == 2
MaxRuns == 2
MaxEvents == 2
MaxStamp == 2
MaxFee == 2
HttpLimit == 2
MaxRequests == HttpLimit + 1

(***************************************************************************)
(* Program constants.                                                      *)
(***************************************************************************)
DownloadPermits == 3

(***************************************************************************)
(* Option<T>: None is the empty tuple, Some(x) the one-element tuple.      *)
(***************************************************************************)
None == <<>>
Some(x) == <<x>>

Max2(a, b) == IF a > b THEN a ELSE b
Min2(a, b) == IF a < b THEN a ELSE b

SeqToSet(s) == {s[i] : i \in 1..Len(s)}

RECURSIVE SetMax(_)
SetMax(S) ==
    IF S = {} THEN 0
    ELSE LET x == CHOOSE y \in S : TRUE
         IN  Max2(x, SetMax(S \ {x}))

\* every ordering of the set S (a HashSet is iterated in an arbitrary order)
Orderings(S) ==
    {s \in [1..Cardinality(S) -> S] : \A i, j \in 1..Cardinality(S) : s[i] = s[j] => i = j}

(***************************************************************************)
(* The remote platform, unchanged for the length of a behaviour.           *)
(***************************************************************************)
\* posts 1,2 belong to creator 1, posts 3,4 to creator 2, ...; one more creator
\* has no post at all when the number of posts is even
MaxCreators == MaxPosts \div 2 + 1
Creators == 1..MaxCreators
PostIds == 1..MaxPosts
Urls == 1..MaxUrls

CreatorOf(p) == (p + 1) \div 2
PostsOf(c) == {p \in PostIds : CreatorOf(p) = c}
\* Creator.fee as the creator lists report it
CreatorFee(c) == c
\* PostListItem.updated_datetime / Post.updated_datetime
UpdatedDatetime(p) == p
\* the firstPublishedDatetime of the index page that holds post p (one post a page)
PageDatetime(p) == p
\* PostListItem.fee_required and .is_restricted
FeeRequired(p) == p % 2
IsRestricted(p) == FALSE
\* the URLs body.files() and cover_image_url give for post p
PostUrls(p) ==
    IF p % 3 = 1 THEN <<>>
    ELSE IF p % 3 = 2 THEN [i \in 1..Min2(2, MaxUrls) |-> i]
    ELSE <<1>>

Strategies == {"Increment", "Full", "Force"}

(***************************************************************************)
(* context.rs: CachedCreators                                              *)
(***************************************************************************)
DefaultCached == [updated |-> 0, fee |-> 0]

\* a variant: the comparison is strict
last_updated_strict(self, fee) ==
    LET fee_unchanged == fee < self.fee
    IN  IF fee_unchanged THEN Some(self.updated) ELSE None

\* a variant: the arguments overwrite the record
update_overwrite(self, updated, fee) == [updated |-> updated, fee |-> fee]

last_updated(self, fee) ==
    LET fee_unchanged == fee <= self.fee
    IN  IF fee_unchanged THEN Some(self.updated) ELSE None

update(self, updated, fee) ==
    [updated |-> IF updated > self.updated THEN updated ELSE self.updated,
     fee     |-> IF fee > self.fee THEN fee ELSE self.fee]

(***************************************************************************)
(* post/mod.rs: source link and dedup filter                               *)
(***************************************************************************)
\* format!("https://{creator_id}.fanbox.cc/posts/{post_id}"): the pair of its holes
get_source_link(creator_id, post_id) == <<creator_id, post_id>>

\* a variant: the lookup goes by the source link alone
find_post_by_source(st, source, updated) ==
    IF \E r \in st : r.source = source
    THEN Some([source |-> source, updated |-> updated])
    ELSE None

\* manager.find_post_with_updated(source, updated)
find_post_with_updated(st, source, updated) ==
    IF \E r \in st : r.source = source /\ r.updated = updated
    THEN Some([source |-> source, updated |-> updated])
    ELSE None

\* a variant: every listed post counts as not yet archived
filter_unsynced_post_all(st, p) == TRUE

filter_unsynced_post(st, p) ==
    find_post_with_updated(st, get_source_link(CreatorOf(p), p), UpdatedDatetime(p)) = None

\* config.filter_creator, with the default empty whitelist and blacklist
filter_creator(skip_free, c) == ~(skip_free /\ CreatorFee(c) = 0)

\* config.filter_post
filter_post(skip_free, p) ==
    ~(skip_free /\ FeeRequired(p) = 0) /\ ~IsRestricted(p)

(***************************************************************************)
(* FanboxClient::get_posts(creator, checkpoint): the index pages are       *)
(* ordered newest first; with a checkpoint, the first page whose datetime  *)
(* is <= the checkpoint and every page after it are skipped.               *)
(***************************************************************************)
\* a variant: the page whose datetime equals the checkpoint is fetched too
FetchedPagesInclusive(c, checkpoint) ==
    {p \in PostsOf(c) : checkpoint = None \/ PageDatetime(p) >= checkpoint[1]}

FetchedPages(c, checkpoint) ==
    {p \in PostsOf(c) : checkpoint = None \/ PageDatetime(p) > checkpoint[1]}

RECURSIVE NewestFirst(_)
NewestFirst(S) ==
    IF S = {} THEN <<>>
    ELSE LET p == CHOOSE q \in S : \A r \in S : PageDatetime(r) <= PageDatetime(q)
         IN  <<p>> \o NewestFirst(S \ {p})

ListedPosts(c, checkpoint) == NewestFirst(FetchedPages(c, checkpoint))
LastDate(c, checkpoint) == SetMax({PageDatetime(p) : p \in FetchedPages(c, checkpoint)})

RECURSIVE SelectSeq2(_, _, _)
SelectSeq2(s, st, force) ==
    IF s = <<>> THEN <<>>
    ELSE (IF force \/ filter_unsynced_post(st, Head(s)) THEN <<Head(s)>> ELSE <<>>)
         \o SelectSeq2(Tail(s), st, force)

RECURSIVE SelectPosts(_, _)
SelectPosts(s, skip_free) ==
    IF s = <<>> THEN <<>>
    ELSE (IF filter_post(skip_free, Head(s)) THEN <<Head(s)>> ELSE <<>>)
         \o SelectPosts(Tail(s), skip_free)

(***************************************************************************)
(* State                                                                   *)
(***************************************************************************)
VARIABLES
    run,             \* the number of the current run of main
    strategy,        \* config.strategy()
    skipFree,        \* config.skip_free()
    prevAborted,     \* the posts given up at a file by sync_posts in the run before
    apiFault,        \* the first fault a response showed in this run, and the run's state then
    http,            \* the HTTP requests of the client: request slot -> state
    store,           \* the archive store: the committed post records
    fs,              \* the files present at their final locations
    ctxCreators,     \* context.creators: creator id -> CachedCreators
    ctxFailed,       \* context.failed_posts: the failed-post ledger
    startFailed,     \* the ledger as it was when the run started
    polled,          \* the stages the executor has polled at least once
    panicked,        \* a stage has panicked: the process is gone
    pcCreators,      \* get_creators: "start", "fetching", "done"
    creatorQ,        \* creator_pipeline
    pcCreatorPosts,  \* get_creator_posts: "start", "recv", "listing", "lock", "done"
    curCreator,      \* get_creator_posts: the creator in hand
    listed,          \* get_creator_posts: (posts, last_date) of the creator in hand
    postsQ,          \* posts_pipeline: the batches, each tagged with its sender
    sentLog,         \* every batch sent on posts_pipeline in this run, with its sender
    pcGetPosts,      \* get_posts: "start", "recv", "done"
    tasks,           \* the items received by get_posts, one spawned task each
    failedLocal,     \* get_posts: failed_posts
    filesQ,          \* files_pipeline
    syncQ,           \* sync_pipeline
    pcDownload,      \* download_files: "recv", "done"
    pcSync,          \* sync_posts: "recv", "await", "save", "done"
    curEvent,        \* sync_posts: the task whose sync event is in hand
    authors,         \* sync_posts: the author cache (its keys)
    txStore,         \* sync_posts: the store as the open transaction sees it
    placements,      \* sync_posts: the placements not yet saved
    fileMap,         \* sync_posts: file_map (its keys)
    createDir,       \* sync_posts: create_dir
    pb,              \* the progress counters: position and length
    cacheCall        \* the last call made on its own: its arguments and result

runVars == <<run, strategy, skipFree, prevAborted, apiFault, http>>
discoveryVars == <<pcCreators, creatorQ, pcCreatorPosts, curCreator, listed>>
fetchVars == <<postsQ, sentLog, pcGetPosts, tasks, failedLocal, filesQ, syncQ>>
syncVars == <<pcSync, curEvent, authors, txStore, placements, fileMap, createDir>>
vars == <<runVars, store, fs, ctxCreators, ctxFailed, startFailed, polled, panicked,
          discoveryVars, fetchVars, pcDownload, syncVars, pb, cacheCall>>

Stages == {"get_creators", "get_creator_posts", "get_posts"}

\* a variant: a reply may be delivered before every stage was polled
AnyPollOrder == TRUE

\* main.rs: a current-thread runtime joins the stages: each is polled up to its
\* first suspension before any network reply is delivered to any of them
AllPolled == polled = Stages

NewProgress == [pos |-> 0, len |-> 0]
inc(bar, n) == [bar EXCEPT !.pos = @ + n]
inc_length(bar, n) == [bar EXCEPT !.len = @ + n]
finish(bar) == [bar EXCEPT !.pos = bar.len]

\* one record for each item get_posts receives: the spawned fetch task, the
\* download request and its reply channel, and the sync event
\*   fetch:    "fetching", "ok", "err"         (client.get_post)
\*   comments: "-", "ok", "err"                (client.get_post_comments)
\*   dl:       "-", "queued", "waiting", "running", "sent", "failed", "panicked"
\*   reply:    "-", "pending", "map", "dropped" (the oneshot channel)
\*   sync:     "-", "queued", "awaiting", "saving", "committed", "aborted"
\*   why:      the step at which sync_posts gave the event up
\*   saved:    the final paths this event's save_file calls have written in full
\*   had:      the store held the post's record when the event was received
\*   after:    the store held the post's record when the event was given up
\*   requests, events: the download requests and sync events sent for the item
\*   nfiles:   the placements import_post gave for the event
\*   calls, dirs: the save_file calls made for the event, and those of them
\*             that called create_dir_all
NewTask(p, from) ==
    [post |-> p, from |-> from, fetch |-> "fetching", comments |-> "-",
     dl |-> "-", reply |-> "-", sync |-> "-", why |-> "-", saved |-> {}, had |-> FALSE,
     after |-> FALSE, requests |-> 0, events |-> 0, map |-> {}, recvd |-> 0,
     seq |-> 0, cseq |-> 0, author |-> "-", nfiles |-> 0, calls |-> 0, dirs |-> 0]

NoCall == [op |-> "none"]

\* no response has shown a fault
NoFault == [kind |-> "none", store |-> {}, items |-> 0]

\* no request has been started
NoRequests == [r \in 1..MaxRequests |-> <<"idle">>]

(***************************************************************************)
(* main.rs: the state a run starts in                                      *)
(***************************************************************************)
RunStart ==
    /\ polled = {}
    /\ panicked = FALSE
    /\ pcCreators = "start"
    /\ creatorQ = <<>>
    /\ pcCreatorPosts = "start"
    /\ curCreator = 0
    /\ listed = <<>>
    /\ postsQ = <<>>
    /\ sentLog = <<>>
    /\ pcGetPosts = "start"
    /\ tasks = <<>>
    /\ failedLocal = <<>>
    /\ filesQ = <<>>
    /\ syncQ = <<>>
    /\ pcDownload = "recv"
    /\ pcSync = "recv"
    /\ curEvent = 0
    /\ authors = {}
    /\ txStore = {}
    /\ placements = <<>>
    /\ fileMap = {}
    /\ createDir = FALSE
    /\ pb = [authors |-> NewProgress, posts |-> NewProgress, files |-> NewProgress]

\* the same values, for the next run
RunStartNext ==
    /\ polled' = {}
    /\ panicked' = FALSE
    /\ pcCreators' = "start"
    /\ creatorQ' = <<>>
    /\ pcCreatorPosts' = "start"
    /\ curCreator' = 0
    /\ listed' = <<>>
    /\ postsQ' = <<>>
    /\ sentLog' = <<>>
    /\ pcGetPosts' = "start"
    /\ tasks' = <<>>
    /\ failedLocal' = <<>>
    /\ filesQ' = <<>>
    /\ syncQ' = <<>>
    /\ pcDownload' = "recv"
    /\ pcSync' = "recv"
    /\ curEvent' = 0
    /\ authors' = {}
    /\ txStore' = {}
    /\ placements' = <<>>
    /\ fileMap' = {}
    /\ createDir' = FALSE
    /\ pb' = [authors |-> NewProgress, posts |-> NewProgress, files |-> NewProgress]

PostRecord(p) ==
    [source |-> get_source_link(CreatorOf(p), p), updated |-> UpdatedDatetime(p)]
\* the final path of a placement: {author}/{post}/{filename of the url}
FinalPath(p, url) == <<CreatorOf(p), p, url>>
PathsOf(p) == {FinalPath(p, PostUrls(p)[k]) : k \in 1..Len(PostUrls(p))}

\* the first run, on an empty output directory
Fresh ==
    /\ store = {}
    /\ fs = {}
    /\ ctxCreators = [c \in Creators |-> DefaultCached]
    /\ ctxFailed = <<>>
    /\ startFailed = <<>>

\* a later run: an earlier one has listed every creator, and of the posts it
\* queued some failed to fetch (the ledger), some were committed (the store)
\* and the others were given up by sync_posts
Ledgers == UNION {Orderings(S) : S \in {T \in SUBSET PostIds : Cardinality(T) <= MaxLedger}}

Later ==
    /\ ctxCreators = [c \in Creators |->
           [updated |-> SetMax({PageDatetime(p) : p \in PostsOf(c)}),
            fee |-> CreatorFee(c)]]
    /\ ctxFailed \in Ledgers
    /\ startFailed = ctxFailed
    /\ \E done \in SUBSET (PostIds \ SeqToSet(ctxFailed)) :
         /\ store = {PostRecord(p) : p \in done}
         /\ fs = UNION {PathsOf(p) : p \in done}

Init ==
    /\ run = 1
    /\ prevAborted = {}
    /\ apiFault = NoFault
    /\ http = NoRequests
    /\ strategy \in Strategies
    /\ skipFree \in BOOLEAN
    /\ Fresh \/ Later
    /\ cacheCall = NoCall
    /\ RunStart

InitRuns ==
    /\ run = 1
    /\ prevAborted = {}
    /\ apiFault = NoFault
    /\ http = NoRequests
    /\ strategy = "Increment"
    /\ skipFree = FALSE
    /\ Fresh
    /\ cacheCall = NoCall
    /\ RunStart

(***************************************************************************)
(* creator/mod.rs: get_creators                                            *)
(***************************************************************************)
\* up to the join of the two list requests
GetCreatorsPoll ==
    /\ ~panicked
    /\ pcCreators = "start"
    /\ pcCreators' = "fetching"
    /\ polled' = polled \cup {"get_creators"}
    /\ UNCHANGED <<runVars, store, fs, ctxCreators, ctxFailed, startFailed, panicked,
                   creatorQ, pcCreatorPosts, curCreator, listed, fetchVars, pcDownload,
                   syncVars, pb, cacheCall>>

\* the lists have arrived (a failed list is an empty one): merge, filter, send
GetCreatorsSend ==
    /\ ~panicked
    /\ pcCreators = "fetching"
    /\ AllPolled
    /\ \E total \in SUBSET Creators :
         \E order \in Orderings({c \in total : filter_creator(skipFree, c)}) :
           /\ creatorQ' = creatorQ \o order
           /\ pb' = [pb EXCEPT !.authors = inc_length(@, Cardinality(total))]
    /\ pcCreators' = "done"
    /\ UNCHANGED <<runVars, store, fs, ctxCreators, ctxFailed, startFailed, polled,
                   panicked, pcCreatorPosts, curCreator, listed, fetchVars, pcDownload,
                   syncVars, cacheCall>>

(***************************************************************************)
(* creator/mod.rs: get_creator_posts                                       *)
(***************************************************************************)
GetCreatorPostsPoll ==
    /\ ~panicked
    /\ pcCreatorPosts = "start"
    /\ pcCreatorPosts' = "recv"
    /\ polled' = polled \cup {"get_creator_posts"}
    /\ UNCHANGED <<runVars, store, fs, ctxCreators, ctxFailed, startFailed, panicked,
                   pcCreators, creatorQ, curCreator, listed, fetchVars, pcDownload,
                   syncVars, pb, cacheCall>>

\* creator_pipeline.recv() gives a creator: look its record up, start the listing
GetCreatorPostsRecv ==
    /\ ~panicked
    /\ pcCreatorPosts = "recv"
    /\ creatorQ # <<>>
    /\ curCreator' = Head(creatorQ)
    /\ creatorQ' = Tail(creatorQ)
    /\ pcCreatorPosts' = "listing"
    /\ UNCHANGED <<runVars, store, fs, ctxCreators, ctxFailed, startFailed, polled,
                   panicked, pcCreators, listed, fetchVars, pcDownload, syncVars, pb,
                   cacheCall>>

\* a variant: the checkpoint is handed to the listing under every strategy
CheckpointAnyStrategy(c) == last_updated(ctxCreators[c], CreatorFee(c))

\* the checkpoint get_creator_posts hands to the listing
Checkpoint(c) ==
    IF strategy = "Increment" THEN last_updated(ctxCreators[c], CreatorFee(c)) ELSE None

\* client.get_posts returned Ok((posts, last_date)): advance the checkpoint
GetCreatorPostsListed ==
    /\ ~panicked
    /\ pcCreatorPosts = "listing"
    /\ AllPolled
    /\ listed' = ListedPosts(curCreator, Checkpoint(curCreator))
    /\ ctxCreators' = [ctxCreators EXCEPT ![curCreator] =
                         update(@, LastDate(curCreator, Checkpoint(curCreator)),
                                CreatorFee(curCreator))]
    /\ pcCreatorPosts' = "lock"
    /\ UNCHANGED <<runVars, store, fs, ctxFailed, startFailed, polled, panicked,
                   pcCreators, creatorQ, curCreator, fetchVars, pcDownload, syncVars, pb,
                   cacheCall>>

\* the responses that make fetch return Err: an error envelope, which may be
\* the one of an invalid session
ErrorEnvelopes == {"general_error", "api_error"}

\* the fault recorded for a response of the given kind
Fault(kind) ==
    IF apiFault = NoFault /\ kind # "api_error"
    THEN [kind |-> kind, store |-> store, items |-> Len(tasks)]
    ELSE apiFault

\* client.get_posts returned Err: the stage returns
GetCreatorPostsFailed ==
    /\ ~panicked
    /\ pcCreatorPosts = "listing"
    /\ AllPolled
    /\ \E kind \in ErrorEnvelopes : apiFault' = Fault(kind)
    /\ pcCreatorPosts' = "done"
    /\ UNCHANGED <<run, strategy, skipFree, prevAborted, http, store, fs, ctxCreators,
                   ctxFailed, startFailed, polled, panicked, pcCreators, creatorQ,
                   curCreator, listed, fetchVars, pcDownload, syncVars, pb, cacheCall>>

\* sync_posts holds the store mutex from receiving an event to its commit or abort
StoreLocked == pcSync \in {"await", "save"}

\* manager.lock() acquired: filter, count, send the batch
GetCreatorPostsQueue ==
    /\ ~panicked
    /\ pcCreatorPosts = "lock"
    /\ ~StoreLocked
    /\ LET posts == SelectSeq2(SelectPosts(listed, skipFree), store, strategy = "Force")
       IN  /\ pb' = [pb EXCEPT !.posts = inc_length(@, Len(posts)),
                               !.authors = inc(@, 1)]
           /\ postsQ' = Append(postsQ, [by |-> "get_creator_posts", creator |-> curCreator, posts |-> posts])
           /\ sentLog' = Append(sentLog, [by |-> "get_creator_posts", creator |-> curCreator, posts |-> posts])
    /\ pcCreatorPosts' = "recv"
    /\ listed' = <<>>
    /\ UNCHANGED <<runVars, store, fs, ctxCreators, ctxFailed, startFailed, polled,
                   panicked, pcCreators, creatorQ, curCreator, pcGetPosts, tasks,
                   failedLocal, filesQ, syncQ, pcDownload, syncVars, cacheCall>>

\* creator_pipeline is closed and empty
GetCreatorPostsFinish ==
    /\ ~panicked
    /\ pcCreatorPosts = "recv"
    /\ creatorQ = <<>>
    /\ pcCreators = "done"
    /\ pb' = [pb EXCEPT !.authors = finish(@)]
    /\ pcCreatorPosts' = "done"
    /\ UNCHANGED <<runVars, store, fs, ctxCreators, ctxFailed, startFailed, polled,
                   panicked, pcCreators, creatorQ, curCreator, listed, fetchVars,
                   pcDownload, syncVars, cacheCall>>

(***************************************************************************)
(* post/mod.rs: get_posts                                                  *)
(***************************************************************************)
\* check_failed_posts: the effect on (posts_pipeline, pb.posts)
check_failed_posts(queue, bar, failed_posts) ==
    IF failed_posts = <<>> THEN <<queue, bar>>
    ELSE <<Append(queue, [by |-> "get_posts", creator |-> 0, posts |-> failed_posts]),
           inc(bar, Len(failed_posts))>>

\* the first poll: check_failed_posts, then wait on posts_pipeline
GetPostsPoll ==
    /\ ~panicked
    /\ pcGetPosts = "start"
    /\ LET r == check_failed_posts(postsQ, pb.posts, ctxFailed)
       IN  /\ postsQ' = r[1]
           /\ pb' = [pb EXCEPT !.posts = r[2]]
           /\ sentLog' = IF r[1] = postsQ THEN sentLog
                         ELSE Append(sentLog, r[1][Len(r[1])])
    /\ failedLocal' = <<>>
    /\ pcGetPosts' = "recv"
    /\ polled' = polled \cup {"get_posts"}
    /\ UNCHANGED <<runVars, store, fs, ctxCreators, ctxFailed, startFailed, panicked,
                   discoveryVars, tasks, filesQ, syncQ, pcDownload, syncVars, cacheCall>>

\* posts_pipeline.recv() gives a batch: one task is spawned for each of its items
GetPostsRecv ==
    /\ ~panicked
    /\ pcGetPosts = "recv"
    /\ postsQ # <<>>
    /\ LET batch == Head(postsQ)
       IN  tasks' = tasks \o [i \in 1..Len(batch.posts) |-> NewTask(batch.posts[i], batch.by)]
    /\ postsQ' = Tail(postsQ)
    /\ UNCHANGED <<runVars, store, fs, ctxCreators, ctxFailed, startFailed, polled,
                   panicked, discoveryVars, sentLog, pcGetPosts, failedLocal, filesQ,
                   syncQ, pcDownload, syncVars, pb, cacheCall>>

\* a variant: an item is forwarded only when both calls succeeded
FetchOutcomeBothNeeded(post_ok, comments_ok) ==
    [fetch |-> IF post_ok THEN "ok" ELSE "err",
     comments |-> IF comments_ok THEN "ok" ELSE "err",
     forward |-> post_ok /\ comments_ok,
     failed |-> ~(post_ok /\ comments_ok)]

\* a variant: a failed item is logged and dropped
FetchOutcomeDropped(post_ok, comments_ok) ==
    [fetch |-> IF post_ok THEN "ok" ELSE "err",
     comments |-> IF comments_ok THEN "ok" ELSE "err",
     forward |-> post_ok,
     failed |-> FALSE]

\* the effect of a task's match on its joined results, as the new task record
\* (fetch, comments) and whether the item is forwarded or recorded as failed
FetchOutcome(post_ok, comments_ok) ==
    IF post_ok
    THEN [fetch |-> "ok", comments |-> IF comments_ok THEN "ok" ELSE "err",
          forward |-> TRUE, failed |-> FALSE]
    ELSE [fetch |-> "err", comments |-> IF comments_ok THEN "ok" ELSE "err",
          forward |-> FALSE, failed |-> TRUE]

\* a variant: only the sync event is sent when the post is fetched
forward_sends_sync_only(forward) == [files |-> FALSE, sync |-> forward]

\* the sends of the Ok arm, made one after the other without an await:
\* files_pipeline.send((files, tx)), then sync_piepline.send((post, comments, rx))
forward_sends(forward) == [files |-> forward, sync |-> forward]

\* task i: both calls have returned
FetchDone(i) ==
    /\ ~panicked
    /\ i \in 1..Len(tasks)
    /\ tasks[i].fetch = "fetching"
    /\ \E post_ok \in BOOLEAN, comments_ok \in BOOLEAN :
         LET o == FetchOutcome(post_ok, comments_ok)
             urls == PostUrls(tasks[i].post)
             s == forward_sends(o.forward)
         IN  /\ tasks' = [tasks EXCEPT ![i] =
                    [@ EXCEPT !.fetch = o.fetch, !.comments = o.comments,
                              !.dl = IF s.files THEN "queued" ELSE "-",
                              !.reply = IF o.forward THEN "pending" ELSE "-",
                              !.sync = IF s.sync THEN "queued" ELSE "-",
                              !.requests = IF s.files THEN @ + 1 ELSE @,
                              !.events = IF s.sync THEN @ + 1 ELSE @]]
             /\ filesQ' = IF s.files THEN Append(filesQ, i) ELSE filesQ
             /\ syncQ' = IF s.sync THEN Append(syncQ, i) ELSE syncQ
             /\ failedLocal' = IF o.failed THEN Append(failedLocal, tasks[i].post)
                               ELSE failedLocal
             /\ pb' = [pb EXCEPT !.files = IF o.forward THEN inc_length(@, Len(urls)) ELSE @,
                                 !.posts = inc(@, 1)]
    /\ UNCHANGED <<runVars, store, fs, ctxCreators, ctxFailed, startFailed, polled,
                   panicked, discoveryVars, postsQ, sentLog, pcGetPosts, pcDownload,
                   syncVars, cacheCall>>

\* a variant: the failures of this run are added to the ledger
update_failed_posts_extend(old, failed_posts) == old \o failed_posts

\* update_failed_posts: the new value of context.failed_posts
update_failed_posts(old, failed_posts) == failed_posts

\* posts_pipeline is closed and empty, every task is joined
GetPostsFinish ==
    /\ ~panicked
    /\ pcGetPosts = "recv"
    /\ postsQ = <<>>
    /\ pcCreatorPosts = "done"
    /\ \A i \in 1..Len(tasks) : tasks[i].fetch # "fetching"
    /\ ctxFailed' = update_failed_posts(ctxFailed, failedLocal)
    /\ pb' = [pb EXCEPT !.posts = finish(@)]
    /\ pcGetPosts' = "done"
    /\ UNCHANGED <<runVars, store, fs, ctxCreators, startFailed, polled, panicked,
                   discoveryVars, postsQ, sentLog, tasks, failedLocal, filesQ, syncQ,
                   pcDownload, syncVars, cacheCall>>

(***************************************************************************)
(* post/file.rs: download_files                                            *)
(***************************************************************************)
\* the requests that hold a permit of the semaphore
Running == {i \in 1..Len(tasks) : tasks[i].dl = "running"}

\* the file downloads in progress: try_join_all polls the downloads of every
\* URL of a request that holds a permit together
RECURSIVE SumUrls(_)
SumUrls(S) ==
    IF S = {} THEN 0
    ELSE LET i == CHOOSE j \in S : TRUE
         IN  Len(PostUrls(tasks[i].post)) + SumUrls(S \ {i})

DownloadsInProgress == SumUrls(Running)

\* a variant: every request is spawned and waits for a permit
NeedsPermitAlways(urls) == TRUE

\* urls.is_empty() is false: the request is spawned and waits for a permit
NeedsPermit(urls) == urls # <<>>

\* a variant: a failed download leaves its URL out of the map that is sent
DownloadReplyPartial(all_ok, urls) ==
    IF all_ok
    THEN [dl |-> "sent", reply |-> "map", map |-> SeqToSet(urls)]
    ELSE [dl |-> "failed", reply |-> "map",
          map |-> SeqToSet(SubSeq(urls, 1, Len(urls) - 1))]

\* the end of a spawned request: try_join_all gives Ok with every (url, path),
\* collected to the map that is sent, or the first Err, and tx is dropped
DownloadReply(all_ok, urls) ==
    IF all_ok
    THEN [dl |-> "sent", reply |-> "map", map |-> SeqToSet(urls)]
    ELSE [dl |-> "failed", reply |-> "dropped", map |-> {}]

\* the place of a request in the order files_pipeline.recv() gives them
NextReceived == 1 + Cardinality({j \in 1..Len(tasks) : tasks[j].recvd > 0})

\* files_pipeline.recv() gives a request; one without URLs is answered at
\* once with an empty map (tx.send(..).unwrap() panics if the receiver is gone)
DownloadRecv ==
    /\ ~panicked
    /\ pcDownload = "recv"
    /\ filesQ # <<>>
    /\ LET i == Head(filesQ)
       IN  IF ~NeedsPermit(PostUrls(tasks[i].post))
           THEN IF tasks[i].sync = "aborted"
                THEN /\ panicked' = TRUE
                     /\ tasks' = [tasks EXCEPT ![i].dl = "panicked",
                                                ![i].recvd = NextReceived]
                ELSE /\ panicked' = panicked
                     /\ tasks' = [tasks EXCEPT ![i].dl = "sent", ![i].reply = "map",
                                                ![i].map = {}, ![i].recvd = NextReceived]
           ELSE /\ panicked' = panicked
                /\ tasks' = [tasks EXCEPT ![i].dl = "waiting", ![i].recvd = NextReceived]
    /\ filesQ' = Tail(filesQ)
    /\ UNCHANGED <<runVars, store, fs, ctxCreators, ctxFailed, startFailed, polled,
                   discoveryVars, postsQ, sentLog, pcGetPosts, failedLocal, syncQ,
                   pcDownload, syncVars, pb, cacheCall>>

\* semaphore.acquire(): one permit for the whole request
DownloadAcquire(i) ==
    /\ ~panicked
    /\ i \in 1..Len(tasks)
    /\ tasks[i].dl = "waiting"
    /\ Cardinality(Running) < DownloadPermits
    /\ tasks' = [tasks EXCEPT ![i].dl = "running"]
    /\ UNCHANGED <<runVars, store, fs, ctxCreators, ctxFailed, startFailed, polled,
                   panicked, discoveryVars, postsQ, sentLog, pcGetPosts, failedLocal,
                   filesQ, syncQ, pcDownload, syncVars, pb, cacheCall>>

\* try_join_all gave Ok: the map is sent (unwrap: a panic if the receiver is gone)
DownloadOk(i) ==
    /\ ~panicked
    /\ i \in 1..Len(tasks)
    /\ tasks[i].dl = "running"
    /\ LET r == DownloadReply(TRUE, PostUrls(tasks[i].post))
       IN  tasks' = IF tasks[i].sync = "aborted"
                    THEN [tasks EXCEPT ![i].dl = "panicked"]
                    ELSE [tasks EXCEPT ![i].dl = r.dl, ![i].reply = r.reply,
                                       ![i].map = r.map]
    /\ pb' = [pb EXCEPT !.files = inc(@, Len(PostUrls(tasks[i].post)))]
    /\ UNCHANGED <<runVars, store, fs, ctxCreators, ctxFailed, startFailed, polled,
                   panicked, discoveryVars, postsQ, sentLog, pcGetPosts, failedLocal,
                   filesQ, syncQ, pcDownload, syncVars, cacheCall>>

\* try_join_all gave Err: logged, the reply sender is dropped
DownloadErr(i) ==
    /\ ~panicked
    /\ i \in 1..Len(tasks)
    /\ tasks[i].dl = "running"
    /\ LET r == DownloadReply(FALSE, PostUrls(tasks[i].post))
       IN  tasks' = [tasks EXCEPT ![i].dl = r.dl, ![i].reply = r.reply, ![i].map = r.map]
    /\ \E n \in 0..(Len(PostUrls(tasks[i].post)) - 1) :
         pb' = [pb EXCEPT !.files = inc(@, n)]
    /\ UNCHANGED <<runVars, store, fs, ctxCreators, ctxFailed, startFailed, polled,
                   panicked, discoveryVars, postsQ, sentLog, pcGetPosts, failedLocal,
                   filesQ, syncQ, pcDownload, syncVars, cacheCall>>

\* files_pipeline is closed and empty: the spawned requests are joined
DownloadFinish ==
    /\ ~panicked
    /\ pcDownload = "recv"
    /\ filesQ = <<>>
    /\ pcGetPosts = "done"
    /\ \A i \in 1..Len(tasks) : tasks[i].dl \notin {"queued", "waiting", "running"}
    /\ IF \E i \in 1..Len(tasks) : tasks[i].dl = "panicked"
       THEN panicked' = TRUE /\ UNCHANGED <<pcDownload, pb>>
       ELSE /\ panicked' = panicked
            /\ pb' = [pb EXCEPT !.files = finish(@)]
            /\ pcDownload' = "done"
    /\ UNCHANGED <<runVars, store, fs, ctxCreators, ctxFailed, startFailed, polled,
                   discoveryVars, fetchVars, syncVars, cacheCall>>

(***************************************************************************)
(* post/mod.rs: sync_posts and save_file                                   *)
(***************************************************************************)
\* the (path, url) lists conversion_post can give: here the url of each placement
PlacementLists == UNION {[1..n -> Urls] : n \in 0..MaxPlacements}

\* tx.import_post(post, true): the record of the post, replacing an older one
import_post(st, p) ==
    {r \in st : r.source # PostRecord(p).source} \cup {PostRecord(p)}

\* a variant: the dropped transaction's writes reach the store
rollback_commits(st, tx) == tx

\* the store after a transaction is dropped without a commit
rollback(st, tx) == st

\* a variant: the author map is neither consulted nor filled
sync_creator_uncached(cache, c, store_ok) ==
    IF store_ok
    THEN [ok |-> TRUE, authors |-> cache, called |-> TRUE]
    ELSE [ok |-> FALSE, authors |-> cache, called |-> TRUE]

\* creator/mod.rs sync_creator: the id cached for the creator, or else the
\* store's author sync (which fails or not), cached when it succeeds
sync_creator(cache, c, store_ok) ==
    IF c \in cache
    THEN [ok |-> TRUE, authors |-> cache, called |-> FALSE]
    ELSE IF store_ok
         THEN [ok |-> TRUE, authors |-> cache \cup {c}, called |-> TRUE]
         ELSE [ok |-> FALSE, authors |-> cache, called |-> TRUE]

\* how sync_creator resolved the author of an event
AuthorOutcome(c, store_ok) ==
    LET r == sync_creator(authors, c, store_ok)
    IN  IF ~r.called THEN "cached" ELSE IF r.ok THEN "synced" ELSE "failed"

\* the place of an event in the order sync_pipeline.recv() gives them, and
\* the place of a commit in the order of the commits
NextSeq == 1 + Cardinality({j \in 1..Len(tasks) : tasks[j].seq > 0})
NextCommit == 1 + Cardinality({j \in 1..Len(tasks) : tasks[j].cseq > 0})

\* a variant: the next event is received while the reply of one is awaited
CanReceiveAnytime == pcSync \in {"recv", "await"}

\* the loop of sync_posts is at sync_pipeline.recv(): the guard of the store
\* and the transaction of the event before are dropped
CanReceive == pcSync = "recv"

\* `continue`: the transaction is dropped
Abort(i, why) ==
    /\ store' = rollback(store, txStore)
    /\ tasks' = [tasks EXCEPT ![i].sync = "aborted", ![i].why = why,
                   ![i].calls = IF why \in {"dir", "missing", "copy"} THEN @ + 1 ELSE @,
                   ![i].dirs = IF why \in {"dir", "missing", "copy"} /\ createDir
                               THEN @ + 1 ELSE @,
                   ![i].seq = IF @ = 0 THEN NextSeq ELSE @,
                   ![i].author = IF @ # "-" THEN @
                                 ELSE AuthorOutcome(CreatorOf(tasks[i].post), why # "author"),
                   ![i].after = (find_post_with_updated(store',
                                     get_source_link(CreatorOf(tasks[i].post), tasks[i].post),
                                     UpdatedDatetime(tasks[i].post)) # None)]
    /\ pcSync' = "recv"
    /\ curEvent' = 0
    /\ txStore' = {}
    /\ placements' = <<>>
    /\ fileMap' = {}
    /\ createDir' = FALSE

\* tx.commit()
Commit(i) ==
    /\ tasks' = [tasks EXCEPT ![i].sync = "committed", ![i].cseq = NextCommit]
    /\ store' = txStore
    /\ pcSync' = "recv"
    /\ curEvent' = 0
    /\ txStore' = {}
    /\ placements' = <<>>
    /\ fileMap' = {}
    /\ createDir' = FALSE

\* an event is received, sync_creator fails
SyncRecvAuthorErr ==
    /\ ~panicked
    /\ CanReceive
    /\ syncQ # <<>>
    /\ ~sync_creator(authors, CreatorOf(tasks[Head(syncQ)].post), FALSE).ok
    /\ Abort(Head(syncQ), "author")
    /\ syncQ' = Tail(syncQ)
    /\ UNCHANGED <<runVars, fs, ctxCreators, ctxFailed, startFailed, polled, panicked,
                   discoveryVars, postsQ, sentLog, pcGetPosts, failedLocal, filesQ,
                   pcDownload, authors, pb, cacheCall>>

\* an event is received, tx.import_post fails
SyncRecvImportErr ==
    /\ ~panicked
    /\ CanReceive
    /\ syncQ # <<>>
    /\ Abort(Head(syncQ), "import")
    /\ authors' = sync_creator(authors, CreatorOf(tasks[Head(syncQ)].post), TRUE).authors
    /\ syncQ' = Tail(syncQ)
    /\ UNCHANGED <<runVars, fs, ctxCreators, ctxFailed, startFailed, polled, panicked,
                   discoveryVars, postsQ, sentLog, pcGetPosts, failedLocal, filesQ,
                   pcDownload, pb, cacheCall>>

\* an event is received and imported in the transaction: wait for the reply
SyncRecvImported ==
    /\ ~panicked
    /\ CanReceive
    /\ syncQ # <<>>
    /\ LET i == Head(syncQ)
           p == tasks[i].post
       IN  /\ authors' = sync_creator(authors, CreatorOf(p), TRUE).authors
           /\ txStore' = import_post(store, p)
           /\ \E files \in PlacementLists : placements' = files
           /\ tasks' = [tasks EXCEPT ![i].sync = "awaiting",
                          ![i].nfiles = Len(placements'),
                          ![i].seq = NextSeq,
                          ![i].author = AuthorOutcome(CreatorOf(p), TRUE),
                          ![i].had = (find_post_with_updated(store,
                                          get_source_link(CreatorOf(p), p),
                                          UpdatedDatetime(p)) # None)]
           /\ curEvent' = i
    /\ pcSync' = "await"
    /\ syncQ' = Tail(syncQ)
    /\ UNCHANGED <<runVars, store, fs, ctxCreators, ctxFailed, startFailed, polled,
                   panicked, discoveryVars, postsQ, sentLog, pcGetPosts, failedLocal,
                   filesQ, pcDownload, fileMap, createDir, pb, cacheCall>>

\* rx.await gives Err: the sender was dropped
SyncReplyErr ==
    /\ ~panicked
    /\ pcSync = "await"
    /\ tasks[curEvent].reply = "dropped"
    /\ Abort(curEvent, "reply")
    /\ UNCHANGED <<runVars, fs, ctxCreators, ctxFailed, startFailed, polled, panicked,
                   discoveryVars, postsQ, sentLog, pcGetPosts, failedLocal, filesQ, syncQ,
                   pcDownload, authors, pb, cacheCall>>

\* rx.await gives the map of the downloaded files
SyncReplyOk ==
    /\ ~panicked
    /\ pcSync = "await"
    /\ tasks[curEvent].reply = "map"
    /\ IF placements = <<>>
       THEN Commit(curEvent)
       ELSE /\ fileMap' = tasks[curEvent].map
            /\ createDir' = TRUE
            /\ pcSync' = "save"
            /\ tasks' = [tasks EXCEPT ![curEvent].sync = "saving"]
            /\ UNCHANGED <<store, curEvent, txStore, placements>>
    /\ UNCHANGED <<runVars, fs, ctxCreators, ctxFailed, startFailed, polled, panicked,
                   discoveryVars, postsQ, sentLog, pcGetPosts, failedLocal, filesQ, syncQ,
                   pcDownload, authors, pb, cacheCall>>

\* file_map.remove(url) finds the url
MapHas(map, url) == url \in map

\* a variant: create_dir stays as it is after a file is saved
create_dir_kept == createDir

\* create_dir = false, after a save_file call that returned Ok
create_dir_after_save == FALSE

\* save_file returns Err: at create_dir_all, at file_map.remove, or at the copy
\* (after File::create the destination exists)
SyncSaveErr ==
    /\ ~panicked
    /\ pcSync = "save"
    /\ LET i == curEvent
           url == Head(placements)
           path == FinalPath(tasks[i].post, url)
       IN  \/ /\ createDir
              /\ Abort(i, "dir")
              /\ fs' = fs
           \/ /\ ~MapHas(fileMap, url)
              /\ Abort(i, "missing")
              /\ fs' = fs
           \/ /\ MapHas(fileMap, url)
              /\ \E made \in SUBSET {path} :
                   /\ fs' = fs \cup made
                   /\ Abort(i, "copy")
    /\ UNCHANGED <<runVars, ctxCreators, ctxFailed, startFailed, polled, panicked,
                   discoveryVars, postsQ, sentLog, pcGetPosts, failedLocal, filesQ, syncQ,
                   pcDownload, authors, pb, cacheCall>>

\* save_file returns Ok: the file is at its final location; after the last
\* placement the transaction is committed
SyncSaveOk ==
    /\ ~panicked
    /\ pcSync = "save"
    /\ LET i == curEvent
           url == Head(placements)
           path == FinalPath(tasks[i].post, url)
       IN  /\ MapHas(fileMap, url)
           /\ fs' = fs \cup {path}
           /\ IF Tail(placements) = <<>>
              THEN /\ tasks' = [tasks EXCEPT ![i].sync = "committed",
                                  ![i].cseq = NextCommit,
                                  ![i].calls = @ + 1,
                                  ![i].dirs = IF createDir THEN @ + 1 ELSE @,
                                  ![i].saved = @ \cup {path}]
                   /\ store' = txStore
                   /\ pcSync' = "recv"
                   /\ curEvent' = 0
                   /\ txStore' = {}
                   /\ placements' = <<>>
                   /\ fileMap' = {}
                   /\ createDir' = FALSE
              ELSE /\ tasks' = [tasks EXCEPT ![i].saved = @ \cup {path},
                                  ![i].calls = @ + 1,
                                  ![i].dirs = IF createDir THEN @ + 1 ELSE @]
                   /\ fileMap' = fileMap \ {url}
                   /\ placements' = Tail(placements)
                   /\ createDir' = create_dir_after_save
                   /\ UNCHANGED <<store, pcSync, curEvent, txStore>>
    /\ UNCHANGED <<runVars, ctxCreators, ctxFailed, startFailed, polled, panicked,
                   discoveryVars, postsQ, sentLog, pcGetPosts, failedLocal, filesQ, syncQ,
                   pcDownload, authors, pb, cacheCall>>

\* sync_pipeline is closed and empty
SyncFinish ==
    /\ ~panicked
    /\ pcSync = "recv"
    /\ syncQ = <<>>
    /\ pcGetPosts = "done"
    /\ pcSync' = "done"
    /\ UNCHANGED <<runVars, store, fs, ctxCreators, ctxFailed, startFailed, polled,
                   panicked, discoveryVars, fetchVars, pcDownload, curEvent, authors,
                   txStore, placements, fileMap, createDir, pb, cacheCall>>

(***************************************************************************)
(* main.rs: the end of a run and the start of the next                     *)
(***************************************************************************)
AllDone ==
    /\ pcCreators = "done"
    /\ pcCreatorPosts = "done"
    /\ pcGetPosts = "done"
    /\ pcDownload = "done"
    /\ pcSync = "done"

\* context.save then Context::load: the ledger read back by the next run
SavedLedger(failed_posts) == failed_posts

NextRun ==
    /\ ~panicked
    /\ AllDone
    /\ run < MaxRuns
    /\ run' = run + 1
    /\ strategy' = strategy
    /\ skipFree' = skipFree
    /\ prevAborted' = {tasks[i].post : i \in {j \in 1..Len(tasks) :
                                 tasks[j].sync = "aborted" /\ tasks[j].why = "file"}}
    /\ apiFault' = NoFault
    /\ http' = http
    /\ ctxFailed' = SavedLedger(ctxFailed)
    /\ startFailed' = SavedLedger(ctxFailed)
    /\ UNCHANGED <<store, fs, ctxCreators, cacheCall>>
    /\ RunStartNext

(***************************************************************************)
(* download_files and sync_posts on one event, start to end, as one step:  *)
(* the event is committed with all its files saved, or given up, before    *)
(* the reply ("import") or at a file of the post ("file": a failed         *)
(* download, a missing URL, a failed copy), with the files saved before    *)
(* the failure left where they are.                                        *)
(***************************************************************************)
RECURSIVE Prefixes(_)
Prefixes(s) ==
    IF s = <<>> THEN {<<>>} ELSE {s} \cup Prefixes(SubSeq(s, 1, Len(s) - 1))

Persist ==
    /\ ~panicked
    /\ pcSync = "recv"
    /\ pcDownload = "recv"
    /\ syncQ # <<>>
    /\ filesQ # <<>>
    /\ Head(filesQ) = Head(syncQ)
    /\ LET i == Head(syncQ)
           p == tasks[i].post
           held(st) == find_post_with_updated(st, get_source_link(CreatorOf(p), p),
                                              UpdatedDatetime(p)) # None
       IN  \E ok \in BOOLEAN, why \in {"import", "file"} :
             \E saved \in Prefixes(PostUrls(p)) :
               /\ ok => (saved = PostUrls(p) /\ why = "file")
               /\ (~ok /\ why = "import") => saved = <<>>
               /\ (~ok /\ why = "file") => Len(saved) < Len(PostUrls(p))
               /\ store' = IF ok THEN import_post(store, p) ELSE rollback(store, import_post(store, p))
               /\ fs' = fs \cup {FinalPath(p, saved[k]) : k \in 1..Len(saved)}
               /\ tasks' = [tasks EXCEPT
                      ![i].sync = IF ok THEN "committed" ELSE "aborted",
                      ![i].why = IF ok THEN "-" ELSE why,
                      ![i].dl = "sent",
                      ![i].reply = "map",
                      ![i].map = SeqToSet(PostUrls(p)),
                      ![i].seq = NextSeq,
                      ![i].cseq = IF ok THEN NextCommit ELSE 0,
                      ![i].author = AuthorOutcome(CreatorOf(p), TRUE),
                      ![i].saved = {FinalPath(p, saved[k]) : k \in 1..Len(saved)},
                      ![i].had = held(store),
                      ![i].after = held(store')]
               /\ authors' = sync_creator(authors, CreatorOf(p), TRUE).authors
               /\ pb' = [pb EXCEPT !.files = inc(@, Len(PostUrls(p)))]
    /\ syncQ' = Tail(syncQ)
    /\ filesQ' = Tail(filesQ)
    /\ UNCHANGED <<runVars, ctxCreators, ctxFailed, startFailed, polled, panicked,
                   discoveryVars, postsQ, sentLog, pcGetPosts, failedLocal, pcDownload,
                   pcSync, curEvent, txStore, placements, fileMap, createDir, cacheCall>>

\* a stage is waiting for the reply to a request of the API client
RequestInFlight ==
    \/ AllPolled /\ pcCreators = "fetching"
    \/ AllPolled /\ pcCreatorPosts = "listing"
    \/ \E i \in 1..Len(tasks) : tasks[i].fetch = "fetching"

\* a reply ends the process: a body that parses neither as the expected
\* envelope nor as an error envelope (fetch: exit(1)), or an error envelope
\* under one of the client's .expect(..)
RequestFatal ==
    /\ ~panicked
    /\ RequestInFlight
    /\ \E kind \in {"parse", "general_error"} : apiFault' = Fault(kind)
    /\ panicked' = TRUE
    /\ UNCHANGED <<run, strategy, skipFree, prevAborted, http, store, fs, ctxCreators,
                   ctxFailed, startFailed, polled, discoveryVars, fetchVars, pcDownload,
                   syncVars, pb, cacheCall>>

Discovery ==
    \/ GetCreatorsPoll
    \/ GetCreatorsSend
    \/ GetCreatorPostsPoll
    \/ GetCreatorPostsRecv
    \/ GetCreatorPostsListed
    \/ GetCreatorPostsFailed
    \/ GetCreatorPostsQueue
    \/ GetCreatorPostsFinish

Fetch ==
    \/ GetPostsPoll
    \/ GetPostsRecv
    \/ \E i \in 1..Len(tasks) : FetchDone(i)
    \/ GetPostsFinish

Download ==
    \/ DownloadRecv
    \/ \E i \in 1..Len(tasks) : DownloadAcquire(i)
    \/ \E i \in 1..Len(tasks) : DownloadOk(i)
    \/ \E i \in 1..Len(tasks) : DownloadErr(i)

Sync ==
    \/ SyncRecvAuthorErr
    \/ SyncRecvImportErr
    \/ SyncRecvImported
    \/ SyncReplyErr
    \/ SyncReplyOk
    \/ SyncSaveErr
    \/ SyncSaveOk

(***************************************************************************)
(* Spec: one run of the program; the discovery and fetch stages step by    *)
(* step, download and persistence an event a step.                         *)
(***************************************************************************)
Run == Discovery \/ Fetch \/ Persist \/ DownloadFinish \/ SyncFinish \/ RequestFatal

Next == Run

Spec == Init /\ [][Next]_vars

(***************************************************************************)
(* SpecRuns: the runs of the program one after the other, from an empty    *)
(* output directory, with the same configuration.                          *)
(***************************************************************************)
NextRuns == Run \/ NextRun

SpecRuns == InitRuns /\ [][NextRuns]_vars

(***************************************************************************)
(* SpecSync: the download and persistence stages step by step, on the      *)
(* events of a batch get_posts has received and spawned its tasks for, in  *)
(* a run that re-queues every post (Force) over what earlier runs stored.  *)
(***************************************************************************)
Batches == UNION {[1..n -> PostIds] : n \in 1..MaxEvents}

InitSync ==
    /\ run = 1
    /\ prevAborted = {}
    /\ apiFault = NoFault
    /\ http = NoRequests
    /\ strategy = "Force"
    /\ skipFree = FALSE
    /\ \E done \in SUBSET PostIds :
         /\ store = {PostRecord(p) : p \in done}
         /\ fs = UNION {PathsOf(p) : p \in done}
    /\ ctxCreators = [c \in Creators |-> DefaultCached]
    /\ ctxFailed = <<>>
    /\ startFailed = <<>>
    /\ cacheCall = NoCall
    /\ polled = Stages
    /\ panicked = FALSE
    /\ pcCreators = "done"
    /\ creatorQ = <<>>
    /\ pcCreatorPosts = "done"
    /\ curCreator = 0
    /\ listed = <<>>
    /\ postsQ = <<>>
    /\ \E batch \in Batches :
         /\ tasks = [i \in 1..Len(batch) |-> NewTask(batch[i], "get_creator_posts")]
         /\ sentLog = <<[by |-> "get_creator_posts", creator |-> 0, posts |-> batch]>>
         /\ pb = [authors |-> NewProgress, files |-> NewProgress,
                  posts |-> inc_length(NewProgress, Len(batch))]
    /\ pcGetPosts = "recv"
    /\ failedLocal = <<>>
    /\ filesQ = <<>>
    /\ syncQ = <<>>
    /\ pcDownload = "recv"
    /\ pcSync = "recv"
    /\ curEvent = 0
    /\ authors = {}
    /\ txStore = {}
    /\ placements = <<>>
    /\ fileMap = {}
    /\ createDir = FALSE

NextSync ==
    \/ \E i \in 1..Len(tasks) : FetchDone(i)
    \/ GetPostsFinish
    \/ Download
    \/ DownloadFinish
    \/ Sync
    \/ SyncFinish

SpecSync == InitSync /\ [][NextSync]_vars

(***************************************************************************)
(* SpecCache: the calls of CachedCreators on the records of context.creators, *)
(* with arbitrary arguments, the pipeline at rest.                         *)
(***************************************************************************)
Stamps == -1..MaxStamp
Fees == 0..MaxFee

InitCache ==
    /\ run = 1
    /\ prevAborted = {}
    /\ apiFault = NoFault
    /\ http = NoRequests
    /\ strategy = "Increment"
    /\ skipFree = FALSE
    /\ Fresh
    /\ cacheCall = NoCall
    /\ RunStart

\* creators.entry(c).or_default().update(updated, fee)
CacheUpdate(c, updated, fee) ==
    /\ ctxCreators' = [ctxCreators EXCEPT ![c] = update(@, updated, fee)]
    /\ cacheCall' = [op |-> "update", creator |-> c, self |-> ctxCreators[c],
                     updated |-> updated, fee |-> fee, result |-> None]
    /\ UNCHANGED <<runVars, store, fs, ctxFailed, startFailed, polled, panicked,
                   discoveryVars, fetchVars, pcDownload, syncVars, pb>>

\* creators.entry(c).or_default().last_updated(fee)
CacheLastUpdated(c, fee) ==
    /\ cacheCall' = [op |-> "last_updated", creator |-> c, self |-> ctxCreators[c],
                     updated |-> 0, fee |-> fee,
                     result |-> last_updated(ctxCreators[c], fee)]
    /\ UNCHANGED <<runVars, store, fs, ctxCreators, ctxFailed, startFailed, polled,
                   panicked, discoveryVars, fetchVars, pcDownload, syncVars, pb>>

NextCache ==
    \/ \E c \in Creators, updated \in Stamps, fee \in Fees : CacheUpdate(c, updated, fee)
    \/ \E c \in Creators, fee \in Fees : CacheLastUpdated(c, fee)

SpecCache == InitCache /\ [][NextCache]_vars

(***************************************************************************)
(* Properties                                                              *)
(***************************************************************************)

\* C1 (amended): when save_file finds the URL of a placement missing from the
\* reply map, the event is given up without a commit and the store answers
\* the dedup lookup for the post (source link, updated timestamp) as it did
\* when the event was received: none, unless the record was already there.
C1_MissingUrlLeavesStoreAsItWas ==
    \A i \in 1..Len(tasks) :
        (tasks[i].sync = "aborted" /\ tasks[i].why = "missing")
            => tasks[i].after = tasks[i].had

\* C1, the case: an event given up at a missing URL, no record before or after
C1_MissingUrlAbortReached ==
    \E i \in 1..Len(tasks) :
        /\ tasks[i].sync = "aborted"
        /\ tasks[i].why = "missing"
        /\ ~tasks[i].had
        /\ ~tasks[i].after

\* C1 as stated: after an event is given up at a missing URL the store holds
\* no record for the post
C1_MissingUrlLeavesNoRecord ==
    \A i \in 1..Len(tasks) :
        (tasks[i].sync = "aborted" /\ tasks[i].why = "missing") => ~tasks[i].after

\* C2 as stated: when the persistence of a post is given up at a missing URL
\* or a failed copy, none of the files its earlier save_file calls wrote is
\* at its final location
C2_AbortLeavesNoFile ==
    \A i \in 1..Len(tasks) :
        (tasks[i].sync = "aborted" /\ tasks[i].why \in {"missing", "copy"})
            => tasks[i].saved \cap fs = {}

\* C3: after update(updated, fee) each field of the record is the maximum of
\* its value before the call and the argument, so neither field decreases
C3_UpdateIsMax ==
    cacheCall.op = "update" =>
        LET before == cacheCall.self
            now == ctxCreators[cacheCall.creator]
        IN  /\ now.updated = Max2(before.updated, cacheCall.updated)
            /\ now.fee = Max2(before.fee, cacheCall.fee)
            /\ now.updated >= before.updated
            /\ now.fee >= before.fee

\* C3, the case: a call with an older timestamp and a higher fee
C3_UpdateReached ==
    /\ cacheCall.op = "update"
    /\ cacheCall.updated < cacheCall.self.updated
    /\ cacheCall.fee > cacheCall.self.fee
    /\ cacheCall.self.updated > 0

\* C4: last_updated(fee) is the stored timestamp exactly when the stored fee
\* is at least fee, and none otherwise
C4_LastUpdatedIffFeeCovered ==
    cacheCall.op = "last_updated" =>
        /\ (cacheCall.result = Some(cacheCall.self.updated)) <=> (cacheCall.self.fee >= cacheCall.fee)
        /\ (cacheCall.result = None) <=> (cacheCall.self.fee < cacheCall.fee)

\* C4, the case: the fee asked for exceeds the stored one, the stored
\* timestamp being as large as it gets
C4_FeeRaisedReached ==
    /\ cacheCall.op = "last_updated"
    /\ cacheCall.fee > cacheCall.self.fee
    /\ cacheCall.self.updated = MaxStamp
    /\ cacheCall.result = None

\* C5 as stated: a post whose persistence was given up at a file in a run is queued to
\* get_posts in the next Increment run, by the ledger or by the listing of
\* its creator, once that creator has been listed in the run
C5_AbortedPostQueuedAgain ==
    (run > 1 /\ strategy = "Increment" /\ "get_posts" \in polled) =>
        \A p \in prevAborted :
            (\E k \in 1..Len(sentLog) : /\ sentLog[k].by = "get_creator_posts"
                                        /\ sentLog[k].creator = CreatorOf(p))
                => \E k \in 1..Len(sentLog) : p \in SeqToSet(sentLog[k].posts)

\* C6: when get_posts has finished, the ledger holds the items whose
\* get_post call failed in this run, each as often as it failed, and nothing
\* else: nothing of the ledger the run started with is kept
C6_LedgerIsThisRunsFailures ==
    pcGetPosts = "done" =>
        \A p \in PostIds :
            Cardinality({k \in 1..Len(ctxFailed) : ctxFailed[k] = p})
                = Cardinality({i \in 1..Len(tasks) : tasks[i].post = p /\ tasks[i].fetch = "err"})

\* C6, the case: an item of the old ledger was fetched and is gone from the
\* ledger, another item failed and is in it
C6_LedgerReplacedReached ==
    /\ pcGetPosts = "done"
    /\ startFailed # <<>>
    /\ ctxFailed # <<>>
    /\ \E i \in 1..Len(tasks) :
         /\ tasks[i].from = "get_posts"
         /\ tasks[i].fetch = "ok"
         /\ tasks[i].post \notin SeqToSet(ctxFailed)

C9_LedgerQueuedFirst ==
    startFailed # <<>> =>
        /\ sentLog # <<>> =>
             /\ sentLog[1].by = "get_posts"
             /\ sentLog[1].posts = startFailed
             /\ \A k \in 2..Len(sentLog) : sentLog[k].by = "get_creator_posts"
        /\ \A i \in 1..Len(tasks) :
             (tasks[i].from = "get_posts") <=> (i <= Len(startFailed))

\* C9, the case: a ledger, and a batch of discovered posts sent after it
C9_LedgerThenDiscoveredReached ==
    /\ startFailed # <<>>
    /\ \E k \in 2..Len(sentLog) : sentLog[k].posts # <<>>
    /\ \E i \in 1..Len(tasks) : tasks[i].from = "get_creator_posts"

\* C10 as stated: the total of the posts counter is the number of posts
\* queued so far, ledger items included, its position never exceeds its
\* total, and the two are equal when get_posts has finished
C10_PostsCounterAccounts ==
    /\ pcGetPosts # "done" =>
         pb.posts.len = Cardinality(UNION {{<<k, j>> : j \in 1..Len(sentLog[k].posts)} :
                                             k \in 1..Len(sentLog)})
    /\ pb.posts.pos <= pb.posts.len
    /\ pcGetPosts = "done" => pb.posts.pos = pb.posts.len

\* C11 as stated: a creator whose listing fails is skipped, and every other
\* creator delivered on creator_pipeline is still received and listed: when
\* both discovery stages have ended no delivered creator is left on the queue
C11_OtherCreatorsStillListed ==
    (pcCreators = "done" /\ pcCreatorPosts = "done") => creatorQ = <<>>

\* C12 as stated: once a response has shown the error envelope of an invalid
\* session (general_error), the run does not finish as a completed run, no
\* further post is committed and no further item is taken up for fetching
C12_InvalidSessionEndsRun ==
    apiFault.kind = "general_error" =>
        /\ ~AllDone
        /\ store = apiFault.store
        /\ Len(tasks) = apiFault.items

\* C13 as stated: a response that parses as neither envelope fails its own
\* request only, the run goes on
C13_ParseErrorEndsRequestOnly ==
    apiFault.kind = "parse" => ~panicked

\* ---------------------------------------------------------------------------
\* The HTTP requests of the API client and its permit pool
\* ---------------------------------------------------------------------------

\* the request functions of the client: fetch and download of FanboxClient
\* take the client together with a permit, _download of ArchiveClient takes
\* client_with_semaphore, _get of ArchiveClient takes the bare client
RequestKinds == {"fetch", "download", "_get", "_download"}

\* the request function acquires a permit of the pool before it sends
TakesPermit(kind) == kind # "_get"

PermitsHeld ==
    Cardinality({r \in 1..MaxRequests : Len(http[r]) = 2 /\ http[r][2] = "held"})

Outstanding ==
    Cardinality({r \in 1..MaxRequests : Len(http[r]) = 2 /\ http[r][2] # "waiting"})

InitHttp ==
    /\ Init
    /\ pcCreators = "start"

\* a stage calls a request function: with a permit to take it waits on the
\* semaphore, without one it sends at once
HttpStart(r, kind) ==
    /\ http[r] = <<"idle">>
    /\ http' = [http EXCEPT ![r] =
                   IF TakesPermit(kind) THEN <<kind, "waiting">> ELSE <<kind, "bare">>]
    /\ UNCHANGED <<run, strategy, skipFree, prevAborted, apiFault, store, fs, ctxCreators,
                   ctxFailed, startFailed, polled, panicked, discoveryVars, fetchVars,
                   pcDownload, syncVars, pb, cacheCall>>

\* semaphore.acquire() returns: a permit of the pool is free
HttpAcquire(r) ==
    /\ Len(http[r]) = 2
    /\ http[r][2] = "waiting"
    /\ PermitsHeld < HttpLimit
    /\ http' = [http EXCEPT ![r] = <<http[r][1], "held">>]
    /\ UNCHANGED <<run, strategy, skipFree, prevAborted, apiFault, store, fs, ctxCreators,
                   ctxFailed, startFailed, polled, panicked, discoveryVars, fetchVars,
                   pcDownload, syncVars, pb, cacheCall>>

\* the response has arrived and the request function returns: its permit, if
\* it holds one, is dropped
HttpEnd(r) ==
    /\ Len(http[r]) = 2
    /\ http[r][2] # "waiting"
    /\ http' = [http EXCEPT ![r] = <<"idle">>]
    /\ UNCHANGED <<run, strategy, skipFree, prevAborted, apiFault, store, fs, ctxCreators,
                   ctxFailed, startFailed, polled, panicked, discoveryVars, fetchVars,
                   pcDownload, syncVars, pb, cacheCall>>

HttpStartAny == \E r \in 1..MaxRequests, kind \in RequestKinds : HttpStart(r, kind)
HttpAcquireAny == \E r \in 1..MaxRequests : HttpAcquire(r)
HttpEndAny == \E r \in 1..MaxRequests : HttpEnd(r)

NextHttp == HttpStartAny \/ HttpAcquireAny \/ HttpEndAny

SpecHttp == InitHttp /\ [][NextHttp]_vars

\* C14 as stated: the requests outstanding at one moment, counted over every
\* request function of the client, never exceed the limit of the permit pool
C14_OutstandingWithinLimit ==
    Outstanding <= HttpLimit

\* C15 as stated: the file downloads in progress at one moment never exceed
\* the bound of 3 of the download stage
C15_DownloadsWithinBound ==
    DownloadsInProgress <= DownloadPermits

\* C16: a download request without URLs never waits for a permit and never
\* holds one; it is answered when it is received, with the empty map
C16_EmptyRequestAnsweredAtOnce ==
    \A i \in 1..Len(tasks) :
        PostUrls(tasks[i].post) = <<>> =>
            /\ tasks[i].dl \in {"-", "queued", "sent", "panicked"}
            /\ tasks[i].recvd > 0 => tasks[i].dl \in {"sent", "panicked"}
            /\ tasks[i].dl = "sent" => (tasks[i].reply = "map" /\ tasks[i].map = {})

\* a request without URLs has its reply while a request received before it
\* still holds a permit
C16_AnsweredWhileEarlierRuns ==
    \E i, j \in 1..Len(tasks) :
        /\ PostUrls(tasks[i].post) = <<>>
        /\ tasks[i].dl = "sent"
        /\ tasks[i].reply = "map"
        /\ tasks[j].dl = "running"
        /\ tasks[j].recvd < tasks[i].recvd

\* C17: a request with a failed download delivers no map and its post is not
\* committed (it is aborted by the time sync_posts ends); a delivered map has
\* an entry for every URL of the request
C17_FailedDownloadFailsReply ==
    \A i \in 1..Len(tasks) :
        /\ tasks[i].dl = "failed" =>
              /\ tasks[i].reply = "dropped"
              /\ tasks[i].map = {}
              /\ tasks[i].sync \notin {"saving", "committed"}
              /\ pcSync = "done" => tasks[i].sync = "aborted"
        /\ tasks[i].reply = "map" => tasks[i].map = SeqToSet(PostUrls(tasks[i].post))

\* a request of two URLs failed at a download and sync_posts gave its post up
\* at the reply
C17_FailedReplyAbortReached ==
    \E i \in 1..Len(tasks) :
        /\ Len(PostUrls(tasks[i].post)) = 2
        /\ tasks[i].dl = "failed"
        /\ tasks[i].sync = "aborted"
        /\ tasks[i].why = "reply"

\* the events whose transaction is open
OpenTransactions == {i \in 1..Len(tasks) : tasks[i].sync \in {"awaiting", "saving"}}

\* C18: at most one transaction is open at a time, it is the one of the event
\* sync_posts is at and the store mutex is held while it is open, and the
\* commits follow the order in which the events were received
C18_PersistenceSerialized ==
    /\ Cardinality(OpenTransactions) <= 1
    /\ \A i \in OpenTransactions : StoreLocked /\ curEvent = i
    /\ ~StoreLocked => (OpenTransactions = {} /\ txStore = {})
    /\ \A i, j \in 1..Len(tasks) :
          (tasks[i].cseq > 0 /\ tasks[j].cseq > 0 /\ tasks[i].seq < tasks[j].seq)
              => tasks[i].cseq < tasks[j].cseq

\* one event is committed and the transaction of the next is open, with the
\* store mutex held, while its files are being placed
C18_SecondTransactionOpenReached ==
    \E i, j \in 1..Len(tasks) :
        /\ tasks[i].cseq = 1
        /\ tasks[i].seq < tasks[j].seq
        /\ tasks[j].sync = "saving"
        /\ StoreLocked
        /\ txStore # store

\* C19: once an event of a creator has resolved the author, every event of
\* the same creator received later takes the id from the map, and the
\* store's author sync succeeds at most once for a creator
C19_AuthorResolvedOnce ==
    \A i, j \in 1..Len(tasks) :
        (/\ CreatorOf(tasks[i].post) = CreatorOf(tasks[j].post)
         /\ tasks[i].author \in {"synced", "cached"}
         /\ tasks[j].seq > tasks[i].seq)
            => tasks[j].author = "cached"

\* the first event of a creator synced the author and was given up, the
\* next event of the creator took the id from the map and was committed
C19_CachedAfterSyncedReached ==
    \E i, j \in 1..Len(tasks) :
        /\ CreatorOf(tasks[i].post) = CreatorOf(tasks[j].post)
        /\ tasks[i].post # tasks[j].post
        /\ tasks[i].author = "synced"
        /\ tasks[i].sync = "aborted"
        /\ tasks[j].author = "cached"
        /\ tasks[j].sync = "committed"

\* C20 as stated: after an event of a post was aborted, the post is not
\* attempted again in the run: no later event of the same post is received
\* by sync_posts (imported again, committed or aborted again)
C20_AbortedPostNotAttemptedAgain ==
    \A i, j \in 1..Len(tasks) :
        (/\ tasks[i].post = tasks[j].post
         /\ tasks[i].sync = "aborted"
         /\ tasks[i].seq > 0)
            => tasks[j].seq <= tasks[i].seq

\* the store holds the record of every post of the platform at its present
\* updated timestamp
AllArchived == \A p \in PostIds : PostRecord(p) \in store

\* C21: a run that does not force finds nothing to do on an archive that
\* holds every post of the unchanged platform: each batch get_creator_posts
\* queues is empty, and the store keeps at most one record per source link
C21_ArchivedRunQueuesNothing ==
    [][/\ (/\ strategy # "Force"
           /\ AllArchived
           /\ Len(sentLog') > Len(sentLog)
           /\ sentLog'[Len(sentLog')].by = "get_creator_posts")
              => sentLog'[Len(sentLog')].posts = <<>>
       /\ \A r1, r2 \in store' : r1.source = r2.source => r1 = r2]_vars

\* an Increment run after a run that committed every post has listed the
\* creator of the posts and queued an empty batch, and has nothing to fetch
C21_SecondRunIdleReached ==
    /\ strategy = "Increment"
    /\ AllArchived
    /\ startFailed = <<>>
    /\ pcCreatorPosts = "done"
    /\ tasks = <<>>
    /\ \E k \in 1..Len(sentLog) :
          /\ sentLog[k].by = "get_creator_posts"
          /\ PostsOf(sentLog[k].creator) # {}
          /\ sentLog[k].posts = <<>>

\* ---------------------------------------------------------------------------
\* The filters of get_creator_posts on one listed item
\* ---------------------------------------------------------------------------

\* a PostListItem as a listing can report it: the timestamp may differ from
\* the one the store has for the post
ListedItems ==
    [creator_id : Creators, id : PostIds, updated_datetime : 1..MaxStamp,
     fee_required : 0..1, is_restricted : BOOLEAN]

\* the records an archive can hold for the posts
StampedRecords ==
    {[source |-> get_source_link(CreatorOf(p), p), updated |-> t] :
        p \in PostIds, t \in 1..MaxStamp}

\* config.filter_post on the item
filter_post_item(skip_free, post) ==
    ~(skip_free /\ post.fee_required = 0) /\ ~post.is_restricted

\* filter_unsynced_post on the item
filter_unsynced_item(st, post) ==
    find_post_with_updated(st, get_source_link(post.creator_id, post.id),
                           post.updated_datetime) = None

\* the two filters of get_creator_posts: the item stays among the candidates
IsCandidate(st, post, skip_free, strat) ==
    /\ filter_post_item(skip_free, post)
    /\ (strat = "Force" \/ filter_unsynced_item(st, post))

InitFilter ==
    /\ run = 1
    /\ prevAborted = {}
    /\ apiFault = NoFault
    /\ http = NoRequests
    /\ strategy \in Strategies
    /\ skipFree \in BOOLEAN
    /\ store \in SUBSET StampedRecords
    /\ fs = {}
    /\ ctxCreators = [c \in Creators |-> DefaultCached]
    /\ ctxFailed = <<>>
    /\ startFailed = <<>>
    /\ cacheCall = NoCall
    /\ RunStart

\* one listed item goes through the filters
FilterListed(post) ==
    /\ post.creator_id = CreatorOf(post.id)
    /\ cacheCall' = [op |-> "filter", post |-> post,
                     result |-> IsCandidate(store, post, skipFree, strategy)]
    /\ UNCHANGED <<runVars, store, fs, ctxCreators, ctxFailed, startFailed, polled,
                   panicked, discoveryVars, fetchVars, pcDownload, syncVars, pb>>

NextFilter == \E post \in ListedItems : FilterListed(post)

SpecFilter == InitFilter /\ [][NextFilter]_vars

\* the store holds a record with the source link and the timestamp of the item
HoldsSame(post) ==
    \E r \in store :
        /\ r.source = get_source_link(post.creator_id, post.id)
        /\ r.updated = post.updated_datetime

\* C22 as stated: under Increment a listed item is excluded exactly when the
\* store holds a record with its source link and its updated timestamp
C22_ExcludedIffArchivedSame ==
    (cacheCall.op = "filter" /\ strategy = "Increment") =>
        (~cacheCall.result <=> HoldsSame(cacheCall.post))

\* C22: under Increment a listed item that config.filter_post accepts is
\* excluded exactly when the store holds a record with its source link and
\* its updated timestamp
C22_AcceptedExcludedIffArchivedSame ==
    (/\ cacheCall.op = "filter"
     /\ strategy = "Increment"
     /\ ~(skipFree /\ cacheCall.post.fee_required = 0)
     /\ ~cacheCall.post.is_restricted) =>
        (~cacheCall.result <=> HoldsSame(cacheCall.post))

\* the store has the post with an older timestamp than the listing reports,
\* and the item is kept
C22_NewerTimestampIncludedReached ==
    /\ cacheCall.op = "filter"
    /\ strategy = "Increment"
    /\ cacheCall.result
    /\ \E r \in store :
          /\ r.source = get_source_link(cacheCall.post.creator_id, cacheCall.post.id)
          /\ r.updated < cacheCall.post.updated_datetime

\* ---------------------------------------------------------------------------
\* FanboxClient::get_posts(creator, checkpoint), one call with its page
\* fetches completing in any order
\* ---------------------------------------------------------------------------
Checkpoints == {None} \cup {Some(t) : t \in 0..MaxStamp}

InitListing ==
    /\ Init
    /\ strategy = "Increment"

\* the call starts: the page list is read and a fetch is spawned for every
\* page that is not skipped
ListStart(c, checkpoint) ==
    /\ cacheCall.op = "get_posts" => cacheCall.joined
    /\ cacheCall' = [op |-> "get_posts", creator |-> c, checkpoint |-> checkpoint,
                     spawned |-> ListedPosts(c, checkpoint), done |-> <<>>,
                     joined |-> FALSE, posts |-> <<>>, last_date |-> 0]
    /\ UNCHANGED <<runVars, store, fs, ctxCreators, ctxFailed, startFailed, polled,
                   panicked, discoveryVars, fetchVars, pcDownload, syncVars, pb>>

\* the fetch of one spawned page completes
PageDone(p) ==
    /\ cacheCall.op = "get_posts"
    /\ ~cacheCall.joined
    /\ p \in SeqToSet(cacheCall.spawned) \ SeqToSet(cacheCall.done)
    /\ cacheCall' = [cacheCall EXCEPT !.done = Append(@, p)]
    /\ UNCHANGED <<runVars, store, fs, ctxCreators, ctxFailed, startFailed, polled,
                   panicked, discoveryVars, fetchVars, pcDownload, syncVars, pb>>

\* every spawned fetch is awaited, in the order of the page list: the call
\* returns the flattened items and the newest page datetime
ListJoin ==
    /\ cacheCall.op = "get_posts"
    /\ ~cacheCall.joined
    /\ SeqToSet(cacheCall.done) = SeqToSet(cacheCall.spawned)
    /\ cacheCall' = [cacheCall EXCEPT
                        !.joined = TRUE,
                        !.posts = cacheCall.spawned,
                        !.last_date = LastDate(cacheCall.creator, cacheCall.checkpoint)]
    /\ UNCHANGED <<runVars, store, fs, ctxCreators, ctxFailed, startFailed, polled,
                   panicked, discoveryVars, fetchVars, pcDownload, syncVars, pb>>

ListStartAny == \E c \in Creators, checkpoint \in Checkpoints : ListStart(c, checkpoint)
PageDoneAny == \E p \in PostIds : PageDone(p)

NextListing == ListStartAny \/ PageDoneAny \/ ListJoin

SpecListing == InitListing /\ [][NextListing]_vars

MaxListed == 2

\* a Creator as a source list gives it (c.into())
CreatorEntries == [creator_id : Creators, fee : 0..MaxFee]
CreatorLists == UNION {[1..n -> CreatorEntries] : n \in 0..MaxListed}

\* a variant: two creators are equal when all their fields are
creator_eq_fields(a, b) == a = b

\* Creator's Eq and Hash: by the identifier
creator_eq(a, b) == a.creator_id = b.creator_id

\* HashSet::insert: a value equal to one in the set leaves the set as it is
hashset_insert(set, value) ==
    IF \E x \in set : creator_eq(x, value) THEN set ELSE set \cup {value}

\* HashSet::extend: insert for each item, in order
RECURSIVE hashset_extend(_, _)
hashset_extend(set, list) ==
    IF list = <<>> THEN set
    ELSE hashset_extend(hashset_insert(set, Head(list)), Tail(list))

\* config.filter_creator on the entry, with empty whitelist and blacklist
filter_creator_item(skip_free, creator) == ~(skip_free /\ creator.fee = 0)

\* the creators get_creators sends: following, then supporting, then retain
get_creators(following, supporting, skip_free) ==
    LET creators == hashset_extend(hashset_extend({}, following), supporting)
    IN  {c \in creators : filter_creator_item(skip_free, c)}

InitCreators ==
    /\ Init
    /\ Fresh
    /\ strategy = "Increment"

GetCreatorsMerge(following, supporting) ==
    /\ cacheCall = NoCall
    /\ cacheCall' = [op |-> "get_creators", following |-> following,
                     supporting |-> supporting,
                     sent |-> get_creators(following, supporting, skipFree)]
    /\ UNCHANGED <<runVars, store, fs, ctxCreators, ctxFailed, startFailed, polled,
                   panicked, discoveryVars, fetchVars, pcDownload, syncVars, pb>>

NextCreators ==
    \E following \in CreatorLists, supporting \in CreatorLists :
        GetCreatorsMerge(following, supporting)

SpecCreators == InitCreators /\ [][NextCreators]_vars

LastFee(list, id) ==
    LET k == CHOOSE n \in 1..Len(list) :
                 /\ list[n].creator_id = id
                 /\ \A m \in (n + 1)..Len(list) : list[m].creator_id # id
    IN  list[k].fee

InBoth(id) ==
    /\ \E i \in 1..Len(cacheCall.following) : cacheCall.following[i].creator_id = id
    /\ \E j \in 1..Len(cacheCall.supporting) : cacheCall.supporting[j].creator_id = id

\* C25 as stated: for an identifier in both lists the creator that is kept
\* carries the fee of the entry seen last, the one of the supporting list
C25_LastSeenFeeKept ==
    cacheCall.op = "get_creators" =>
        \A c \in cacheCall.sent :
            InBoth(c.creator_id) => c.fee = LastFee(cacheCall.supporting, c.creator_id)

\* ---------------------------------------------------------------------------
\* post/body.rs: PostBody::text and PostBlock::to_text
\* ---------------------------------------------------------------------------
MaxBlocks == 2

\* the one reference id the blocks of the model use
RefId == 1

\* a panic of the call (unwrap on None, unimplemented!())
Panic == [kind |-> "panic"]

\* the blocks of a body: paragraphs (empty or not), headers, and references
PostBlocks ==
    {[ty |-> "p", text |-> t] : t \in {"", "a"}}
        \cup {[ty |-> "header", text |-> "a"]}
        \cup {[ty |-> t, id |-> RefId] : t \in {"image", "file", "embed", "video", "url_embed"}}

BlockLists == UNION {[1..n -> PostBlocks] : n \in 0..MaxBlocks}

\* side tables: an absent table is None, a present one is Some(its entries);
\* an embed or video entry is the service provider of the id
Providers == {"youtube", "other"}
ProviderTables ==
    {None, Some({})} \cup {Some({[id |-> RefId, service_provider |-> sp]}) : sp \in Providers}
UrlEmbedTables == {None, Some({}), Some({[id |-> RefId]})}

PostBodies ==
    [text : {None, Some("t")}, blocks : {None} \cup {Some(b) : b \in BlockLists},
     files : SUBSET {RefId}, embed_map : ProviderTables, videos : ProviderTables,
     url_embed_map : UrlEmbedTables]

\* PostEmbed::to_text and PostVideo::to_text: the known providers are
\* formatted, any other reaches unimplemented!()
provider_to_text(entry) ==
    IF entry.service_provider = "youtube"
    THEN [kind |-> "Text", of |-> "youtube", id |-> entry.id]
    ELSE Panic

\* a variant: an empty paragraph gives no item
empty_paragraph_skipped == [kind |-> "none"]

\* an empty paragraph gives the line break
empty_paragraph == [kind |-> "Text", of |-> "<br>", id |-> 0]

\* PostBlock::to_text
to_text(block, body) ==
    CASE block.ty = "p" ->
           IF block.text = "" THEN empty_paragraph
           ELSE [kind |-> "Text", of |-> "styled", id |-> 0]
      [] block.ty = "header" -> [kind |-> "Text", of |-> "header", id |-> 0]
      [] block.ty \in {"image", "file"} ->
           IF block.id \in body.files THEN [kind |-> "File", of |-> block.ty, id |-> block.id]
           ELSE Panic
      [] block.ty = "embed" ->
           IF body.embed_map = None THEN Panic
           ELSE IF \E e \in body.embed_map[1] : e.id = block.id
                THEN provider_to_text(CHOOSE e \in body.embed_map[1] : e.id = block.id)
                ELSE [kind |-> "Text", of |-> "[Embed not found]", id |-> block.id]
      [] block.ty = "video" ->
           IF body.videos = None THEN Panic
           ELSE IF \E v \in body.videos[1] : v.id = block.id
                THEN provider_to_text(CHOOSE v \in body.videos[1] : v.id = block.id)
                ELSE Panic
      [] block.ty = "url_embed" ->
           IF body.url_embed_map = None THEN Panic
           ELSE IF \E u \in body.url_embed_map[1] : u.id = block.id
                THEN [kind |-> "Text", of |-> "url_embed", id |-> block.id]
                ELSE [kind |-> "Text", of |-> "[URL Embed not found]", id |-> block.id]

\* the outcome of a call: it panicked, or it returned the content
Panicked == [panic |-> TRUE, content |-> <<>>]
Returned(content) == [panic |-> FALSE, content |-> content]

\* the items of the blocks, in order; a panic of one block ends the call
RECURSIVE blocks_to_text(_, _)
blocks_to_text(blocks, body) ==
    IF blocks = <<>> THEN Returned(<<>>)
    ELSE LET item == to_text(Head(blocks), body)
             rest == blocks_to_text(Tail(blocks), body)
         IN  IF item.kind = "panic" \/ rest.panic THEN Panicked
             ELSE IF item.kind = "none" THEN rest
             ELSE Returned(<<item>> \o rest.content)

\* PostBody::text
body_text(body) ==
    LET flat == IF body.text = None THEN <<>>
                ELSE <<[kind |-> "Text", of |-> "flat", id |-> 0]>>
        items == IF body.blocks = None THEN Returned(<<>>)
                 ELSE blocks_to_text(body.blocks[1], body)
    IN  IF items.panic THEN Panicked ELSE Returned(flat \o items.content)

InitBody ==
    /\ Init
    /\ Fresh
    /\ strategy = "Increment"

TransformBody(body) ==
    /\ cacheCall = NoCall
    /\ cacheCall' = [op |-> "text", body |-> body, result |-> body_text(body)]
    /\ UNCHANGED <<runVars, store, fs, ctxCreators, ctxFailed, startFailed, polled,
                   panicked, discoveryVars, fetchVars, pcDownload, syncVars, pb>>

NextBody == \E body \in PostBodies : TransformBody(body)

SpecBody == InitBody /\ [][NextBody]_vars

\* the blocks of the body of the call
CallBlocks == IF cacheCall.body.blocks = None THEN <<>> ELSE cacheCall.body.blocks[1]

\* C26: for a body without flat text, a call of text that returns gives one
\* item for each block, the i-th item being the image of the i-th block
C26_OneItemPerBlockInOrder ==
    (cacheCall.op = "text" /\ cacheCall.body.text = None /\ ~cacheCall.result.panic) =>
        /\ Len(cacheCall.result.content) = Len(CallBlocks)
        /\ \A i \in 1..Len(CallBlocks) :
              cacheCall.result.content[i] = to_text(CallBlocks[i], cacheCall.body)

\* a body of an empty paragraph and a second block gave the line break and
\* then the item of the second block
C26_EmptyParagraphKeptReached ==
    /\ cacheCall.op = "text"
    /\ cacheCall.body.text = None
    /\ ~cacheCall.result.panic
    /\ Len(CallBlocks) = 2
    /\ CallBlocks[1] = [ty |-> "p", text |-> ""]
    /\ CallBlocks[2].ty = "image"
    /\ cacheCall.result.content = <<[kind |-> "Text", of |-> "<br>", id |-> 0],
                            [kind |-> "File", of |-> "image", id |-> RefId]>>

\* the reference of the block has no entry in its side table
Unresolved(block, body) ==
    \/ block.ty \in {"image", "file"} /\ block.id \notin body.files
    \/ block.ty = "embed" /\
          (body.embed_map = None \/ ~\E e \in body.embed_map[1] : e.id = block.id)
    \/ block.ty = "url_embed" /\
          (body.url_embed_map = None \/ ~\E u \in body.url_embed_map[1] : u.id = block.id)

\* C27 as stated: a body with an image, file, embed or url-embed block whose
\* id does not resolve is still transformed: the call returns
C27_UnresolvedGivesPlaceholder ==
    (/\ cacheCall.op = "text"
     /\ \E i \in 1..Len(CallBlocks) : Unresolved(CallBlocks[i], cacheCall.body)
     /\ \A i \in 1..Len(CallBlocks) :
           Unresolved(CallBlocks[i], cacheCall.body) \/ CallBlocks[i].ty \in {"p", "header"})
        => ~cacheCall.result.panic

\* the block is an embed or a video whose entry names an unknown provider
UnknownProvider(block, body) ==
    \/ /\ block.ty = "embed"
       /\ body.embed_map # None
       /\ \E e \in body.embed_map[1] : e.id = block.id /\ e.service_provider = "other"
    \/ /\ block.ty = "video"
       /\ body.videos # None
       /\ \E v \in body.videos[1] : v.id = block.id /\ v.service_provider = "other"

\* C28 as stated: a body whose only fault is an embed or video of an unknown
\* provider is still transformed: the call returns
C28_UnknownProviderContinues ==
    (/\ cacheCall.op = "text"
     /\ \E i \in 1..Len(CallBlocks) : UnknownProvider(CallBlocks[i], cacheCall.body)
     /\ \A i \in 1..Len(CallBlocks) :
           UnknownProvider(CallBlocks[i], cacheCall.body) \/ CallBlocks[i].ty \in {"p", "header"})
        => ~cacheCall.result.panic

\* ---------------------------------------------------------------------------
\* post/body.rs: PostBlock::style_text
\* ---------------------------------------------------------------------------
MaxText == 8
MaxSpans == 2

\* the bold spans that lie within a text of n characters
SpansIn(n) == {[offset |-> o, length |-> l] : o \in 0..(n - 1), l \in 1..n} \cap
              {sp \in [offset : 0..n, length : 1..n] : sp.offset + sp.length <= n}
StyleLists(n) == UNION {[1..k -> SpansIn(n)] : k \in 0..MaxSpans}

\* styles.sort_by(offset) is stable and styles.pop() takes the last: of the
\* styles left, the one with the greatest offset, the later one on a tie
PopIndex(styles, left) ==
    CHOOSE k \in left :
        \A j \in left : \/ styles[j].offset < styles[k].offset
                         \/ (styles[j].offset = styles[k].offset /\ j <= k)

\* insert_map after the loop over the styles: position -> the markers to
\* insert there; the prefix is appended to its entry, the suffix is put in
\* front of its entry
RECURSIVE insert_markers(_, _, _)
insert_markers(styles, left, insert_map) ==
    IF left = {} THEN insert_map
    ELSE LET k == PopIndex(styles, left)
             at == styles[k].offset
             end == styles[k].offset + styles[k].length
             with_prefix == [insert_map EXCEPT ![at] = @ \o <<"**">>]
             with_suffix == [with_prefix EXCEPT ![end] = <<"**">> \o @]
         IN  insert_markers(styles, left \ {k}, with_suffix)

\* the characters of the texts, all different: the text of n characters is
\* the first n of them
Alphabet == <<"a", "b", "c", "d", "e", "f", "g", "h", "i", "j">>
Text(n) == SubSeq(Alphabet, 1, n)

\* a variant: the markers of a position are written in place of its character
RECURSIVE emit_in_place(_, _, _)
emit_in_place(n, insert_map, i) ==
    IF i >= n THEN <<>>
    ELSE (IF insert_map[i] # <<>> THEN insert_map[i] ELSE <<Text(n)[i + 1]>>)
         \o emit_in_place(n, insert_map, i + 1)

\* the output: before the i-th character the markers of position i, then the
\* character; the loop runs over the characters of the text
RECURSIVE emit(_, _, _)
emit(n, insert_map, i) ==
    IF i >= n THEN <<>>
    ELSE insert_map[i] \o <<Text(n)[i + 1]>> \o emit(n, insert_map, i + 1)

style_text(n, styles) ==
    emit(n, insert_markers(styles, DOMAIN styles, [i \in 0..n |-> <<>>]), 0)

InitStyle ==
    /\ Init
    /\ Fresh
    /\ strategy = "Increment"

StyleText(n, styles) ==
    /\ cacheCall = NoCall
    /\ cacheCall' = [op |-> "style_text", length |-> n, styles |-> styles,
                     output |-> style_text(n, styles)]
    /\ UNCHANGED <<runVars, store, fs, ctxCreators, ctxFailed, startFailed, polled,
                   panicked, discoveryVars, fetchVars, pcDownload, syncVars, pb>>

NextStyle == \E n \in 1..MaxText : \E styles \in StyleLists(n) : StyleText(n, styles)

SpecStyle == InitStyle /\ [][NextStyle]_vars

\* the number of ** markers in the output
Markers(output) == Cardinality({i \in 1..Len(output) : output[i] = "**"})

\* C29 as stated: the output holds an opening and a closing marker for each
\* span: twice as many ** markers as spans
C29_MarkersBalanced ==
    cacheCall.op = "style_text" =>
        Markers(cacheCall.output) = 2 * Len(cacheCall.styles)

\* ---------------------------------------------------------------------------
\* api/fanbox.rs: FanboxClient::get_post_comments
\* ---------------------------------------------------------------------------
MaxPages == 3
MaxItems == 1

\* the item j of page k
CommentItems(k, n) == [j \in 1..n |-> <<k, j>>]

\* a response of post.getComments: without comment list, or with the items
\* of the page and with or without the URL of the next page
CommentPages ==
    {[list |-> FALSE, items |-> 0, next |-> FALSE]}
        \cup [list : {TRUE}, items : 0..MaxItems, next : BOOLEAN]

\* what the server answers for the pages of a post; it has finitely many
CommentServers == {sv \in [1..MaxPages -> CommentPages] : ~sv[MaxPages].next}

\* a variant: the URL of the next page is never taken up
next_url_dropped(page, k) == None

\* next_url = response.next_url
next_url(page, k) == IF page.next THEN Some(k + 1) ELSE None

InitComments ==
    /\ Init
    /\ Fresh
    /\ strategy = "Increment"

\* the call: a comment count of zero returns at once
CommentsCall(comment_count, server) ==
    /\ cacheCall = NoCall
    /\ cacheCall' = [op |-> "get_post_comments", comment_count |-> comment_count,
                     server |-> server,
                     pc |-> IF comment_count = 0 THEN "done" ELSE "loop",
                     next_url |-> IF comment_count = 0 THEN None ELSE Some(1),
                     comments |-> <<>>, requests |-> 0, visited |-> <<>>]
    /\ UNCHANGED <<runVars, store, fs, ctxCreators, ctxFailed, startFailed, polled,
                   panicked, discoveryVars, fetchVars, pcDownload, syncVars, pb>>

\* while let Some(url) = next_url: self.fetch(&url) is issued; without a URL
\* the loop ends
CommentsRequest ==
    /\ cacheCall.op = "get_post_comments"
    /\ cacheCall.pc = "loop"
    /\ cacheCall' = IF cacheCall.next_url = None
                    THEN [cacheCall EXCEPT !.pc = "done"]
                    ELSE [cacheCall EXCEPT !.pc = "fetching", !.requests = @ + 1]
    /\ UNCHANGED <<runVars, store, fs, ctxCreators, ctxFailed, startFailed, polled,
                   panicked, discoveryVars, fetchVars, pcDownload, syncVars, pb>>

\* the response arrives: without a comment list the loop breaks, else the
\* next URL is taken and the items are appended
CommentsResponse ==
    /\ cacheCall.op = "get_post_comments"
    /\ cacheCall.pc = "fetching"
    /\ LET k == cacheCall.next_url[1]
           page == cacheCall.server[k]
       IN  cacheCall' =
             IF ~page.list
             THEN [cacheCall EXCEPT !.pc = "done", !.visited = Append(@, k)]
             ELSE [cacheCall EXCEPT !.pc = "loop", !.visited = Append(@, k),
                                    !.next_url = next_url(page, k),
                                    !.comments = @ \o CommentItems(k, page.items)]
    /\ UNCHANGED <<runVars, store, fs, ctxCreators, ctxFailed, startFailed, polled,
                   panicked, discoveryVars, fetchVars, pcDownload, syncVars, pb>>

\* fetch returns Err: .expect("Failed to get post comments") panics
CommentsError ==
    /\ cacheCall.op = "get_post_comments"
    /\ cacheCall.pc = "fetching"
    /\ cacheCall' = [cacheCall EXCEPT !.pc = "panicked"]
    /\ UNCHANGED <<runVars, store, fs, ctxCreators, ctxFailed, startFailed, polled,
                   panicked, discoveryVars, fetchVars, pcDownload, syncVars, pb>>

CommentsCallAny ==
    \E comment_count \in 0..1, server \in CommentServers : CommentsCall(comment_count, server)

NextComments == CommentsCallAny \/ CommentsRequest \/ CommentsResponse \/ CommentsError

\* the future of the call is polled until it is ready
SpecComments == InitComments /\ [][NextComments]_vars /\ WF_vars(NextComments)

\* the items of the pages 1..m of the server, in order
RECURSIVE PagesItems(_, _)
PagesItems(server, m) ==
    IF m = 0 THEN <<>>
    ELSE PagesItems(server, m - 1) \o
         (IF server[m].list THEN CommentItems(m, server[m].items) ELSE <<>>)

\* the walk of the call so far: the pages 1..m one after the other, each
\* before the last with a list and a next URL, one request a page, and the
\* comments are the items of the pages visited
CommentsWalk ==
    LET c == cacheCall
        m == Len(c.visited)
    IN  /\ c.visited = [k \in 1..m |-> k]
        /\ \A k \in 1..(m - 1) : c.server[k].list /\ c.server[k].next
        /\ c.requests = IF c.pc \in {"fetching", "panicked"} THEN m + 1 ELSE m
        /\ c.comments = PagesItems(c.server, m)
        /\ c.comment_count = 0 => (c.pc = "done" /\ c.requests = 0 /\ c.comments = <<>>)
        /\ (c.pc = "done" /\ c.comment_count > 0) =>
              (m > 0 /\ (~c.server[m].list \/ ~c.server[m].next))

\* C30: the comment walk is sequential and ends: no request for a comment
\* count of zero, else one page at a time up to the first response without
\* comment list or without next URL, the result being the items of the
\* visited pages in order
C30_CommentWalkEnds ==
    /\ [](cacheCall.op = "get_post_comments" => CommentsWalk)
    /\ <>(cacheCall.op = "get_post_comments" /\ cacheCall.pc \in {"done", "panicked"})

\* a walk over two pages ended at the second, which has no next URL, with
\* the items of both
C30_TwoPagesWalkedReached ==
    /\ cacheCall.op = "get_post_comments"
    /\ cacheCall.pc = "done"
    /\ cacheCall.requests = 2
    /\ cacheCall.server[2].list
    /\ cacheCall.server[3].list
    /\ cacheCall.comments = <<<<1, 1>>, <<2, 1>>>>

\* ---------------------------------------------------------------------------
\* main.rs: main, from the opening of the archive to the saving of the context
\* ---------------------------------------------------------------------------
\* the extra of the "fanbox-archive" feature in the archive: none yet, or what
\* an earlier run has saved
Features ==
    {[c \in Creators |-> DefaultCached],
     [c \in Creators |-> [updated |-> SetMax({PageDatetime(p) : p \in PostsOf(c)}),
                          fee |-> CreatorFee(c)]]}

\* a variant: the context is saved whenever it has changed
ExecuteReturnedOrDirty == cacheCall.feature # ctxCreators

\* FanboxSystem::execute().await has returned: every task has
ExecuteReturned == AllDone

\* PostArchiverManager::open_or_create has returned: nothing is loaded and no
\* task exists
InitMain ==
    /\ run = 1
    /\ prevAborted = {}
    /\ apiFault = NoFault
    /\ http = NoRequests
    /\ strategy = "Increment"
    /\ skipFree = FALSE
    /\ \E done \in SUBSET PostIds :
         /\ store = {PostRecord(p) : p \in done}
         /\ fs = UNION {PathsOf(p) : p \in done}
    /\ ctxCreators = [c \in Creators |-> DefaultCached]
    /\ ctxFailed = <<>>
    /\ startFailed = <<>>
    /\ \E feature \in Features :
         cacheCall = [op |-> "main", pc |-> "open", feature |-> feature,
                      was |-> feature, loads |-> 0, saves |-> 0]
    /\ polled = {}
    /\ panicked = FALSE
    /\ pcCreators = "new"
    /\ creatorQ = <<>>
    /\ pcCreatorPosts = "new"
    /\ curCreator = 0
    /\ listed = <<>>
    /\ postsQ = <<>>
    /\ sentLog = <<>>
    /\ pcGetPosts = "new"
    /\ tasks = <<>>
    /\ failedLocal = <<>>
    /\ filesQ = <<>>
    /\ syncQ = <<>>
    /\ pcDownload = "new"
    /\ pcSync = "new"
    /\ curEvent = 0
    /\ authors = {}
    /\ txStore = {}
    /\ placements = <<>>
    /\ fileMap = {}
    /\ createDir = FALSE
    /\ pb = [authors |-> NewProgress, posts |-> NewProgress, files |-> NewProgress]

\* Context::load(&manager): get_feature_with_extra, or the default
MainLoad ==
    /\ cacheCall.op = "main"
    /\ cacheCall.pc = "open"
    /\ ctxCreators' = cacheCall.feature
    /\ cacheCall' = [cacheCall EXCEPT !.pc = "loaded", !.loads = @ + 1]
    /\ UNCHANGED <<runVars, store, fs, ctxFailed, startFailed, polled, panicked,
                   discoveryVars, fetchVars, pcDownload, syncVars, pb>>

\* FanboxSystem::new(..).execute(): the five tasks are created and joined
MainExecute ==
    /\ cacheCall.op = "main"
    /\ cacheCall.pc = "loaded"
    /\ cacheCall' = [cacheCall EXCEPT !.pc = "execute"]
    /\ RunStartNext
    /\ UNCHANGED <<runVars, store, fs, ctxCreators, ctxFailed, startFailed>>

\* context.save(&*manager.lock().await): set_feature_with_extra
MainSave ==
    /\ ~panicked
    /\ cacheCall.op = "main"
    /\ cacheCall.pc = "execute"
    /\ ExecuteReturned
    /\ cacheCall' = [cacheCall EXCEPT !.pc = "saved", !.feature = ctxCreators,
                                      !.saves = @ + 1]
    /\ UNCHANGED <<runVars, store, fs, ctxCreators, ctxFailed, startFailed, polled,
                   panicked, discoveryVars, fetchVars, pcDownload, syncVars, pb>>

NextMain == MainLoad \/ MainExecute \/ Run \/ MainSave

SpecMain == InitMain /\ [][NextMain]_vars

\* a task of the system has been created and has not finished
StageRunning ==
    /\ pcCreators # "new"
    /\ ~AllDone

\* C31: in a run the cache is read from the feature once, before any stage
\* starts, and written to it once, after every stage has finished; the
\* feature is as the run found it while a stage is running
C31_CacheLoadedAndSavedOnce ==
    /\ cacheCall.loads <= 1
    /\ cacheCall.saves <= 1
    /\ pcCreators # "new" => cacheCall.loads = 1
    /\ cacheCall.loads = 0 => (pcCreators = "new" /\ polled = {})
    /\ StageRunning => (cacheCall.saves = 0 /\ cacheCall.feature = cacheCall.was)
    /\ cacheCall.saves = 0 => cacheCall.feature = cacheCall.was
    /\ cacheCall.pc = "saved" <=> cacheCall.saves = 1
    /\ cacheCall.saves = 1 => (AllDone /\ cacheCall.feature = ctxCreators)

\* a run that moved a creator's checkpoint has finished and saved it
C31_ChangedCacheSavedReached ==
    /\ cacheCall.pc = "saved"
    /\ cacheCall.feature # cacheCall.was
    /\ cacheCall.loads = 1
    /\ cacheCall.saves = 1

\* C32: for a fetched post get_posts submits the download request before it
\* emits the sync event, and emits it while the reply is outstanding; so the
\* request of an event sync_posts holds or awaits the reply of has been
\* submitted
C32_RequestSubmittedBeforeEvent ==
    /\ [](\A i \in 1..Len(tasks) :
            /\ tasks[i].events > 0 => tasks[i].requests > 0
            /\ tasks[i].sync # "-" => tasks[i].dl # "-"
            /\ tasks[i].fetch = "ok" => tasks[i].events = 1)
    /\ [][\A i \in 1..Len(tasks) :
            (i <= Len(tasks') /\ tasks'[i].events > tasks[i].events) =>
               (tasks'[i].reply = "pending" /\ tasks'[i].dl = "queued")]_vars

\* sync_posts awaits the reply of a post whose download request is still in
\* files_pipeline
C32_AwaitingBeforeDownloadReached ==
    \E i \in 1..Len(tasks) :
        /\ tasks[i].sync = "awaiting"
        /\ tasks[i].dl = "queued"
        /\ tasks[i].reply = "pending"

\* the events sync_posts is done with
Settled == {i \in 1..Len(tasks) : tasks[i].sync \in {"committed", "aborted"}}

\* C33 as it is stated: for every post with a placement create_dir_all is
\* called once
C33_EveryPlacedPostCreatesOnce ==
    \A i \in Settled : tasks[i].nfiles > 0 => tasks[i].dirs = 1

\* C33: for a post with a placement whose download reply has arrived,
\* create_dir_all is called once, in the save_file call of the first
\* placement and before its copy; the calls for the later placements create
\* no directory, and a post without placement creates none
C33_DirectoryCreatedOncePerPost ==
    /\ [](\A i \in 1..Len(tasks) :
            /\ tasks[i].dirs <= 1
            /\ tasks[i].dirs = (IF tasks[i].calls > 0 THEN 1 ELSE 0)
            /\ tasks[i].nfiles = 0 => tasks[i].dirs = 0
            /\ (i \in Settled /\ tasks[i].nfiles > 0 /\ tasks[i].why # "reply")
                  => tasks[i].dirs = 1)
    /\ [][\A i \in 1..Len(tasks) :
            (i <= Len(tasks') /\ tasks'[i].dirs > tasks[i].dirs) =>
               (tasks[i].calls = 0 /\ tasks[i].saved = {})]_vars

\* a post with two placements is committed after one create_dir_all
C33_TwoFilesOneDirectoryReached ==
    \E i \in 1..Len(tasks) :
        /\ tasks[i].sync = "committed"
        /\ tasks[i].nfiles = 2
        /\ tasks[i].calls = 2
        /\ tasks[i].dirs = 1

\* C34: the checkpoint reaches the listing under Increment only, under Full
\* and Force the listing is whole; the batch queued for a creator is the
\* listed posts that pass the post filter and, under Increment and Full, that
\* the store does not hold with the same updated timestamp: under Force a
\* post the store holds is queued as well
C34_StrategyDecidesPruningAndDedup ==
    [][/\ (pcCreatorPosts = "listing" /\ pcCreatorPosts' = "lock") =>
            listed' = ListedPosts(curCreator,
                          IF strategy = "Increment"
                          THEN last_updated(ctxCreators[curCreator], CreatorFee(curCreator))
                          ELSE None)
       /\ (pcCreatorPosts = "lock" /\ pcCreatorPosts' = "recv") =>
            /\ Len(sentLog') = Len(sentLog) + 1
            /\ sentLog'[Len(sentLog')].posts =
                 SelectSeq(listed, LAMBDA q :
                     /\ ~IsRestricted(q)
                     /\ ~(skipFree /\ FeeRequired(q) = 0)
                     /\ (strategy = "Force" \/ PostRecord(q) \notin store))]_vars

\* under Force a post the store holds with the same timestamp is queued by
\* discovery, from a whole listing made while the cache held a checkpoint
C34_ForceQueuesHeldPostReached ==
    /\ strategy = "Force"
    /\ sentLog # <<>>
    /\ LET last == sentLog[Len(sentLog)]
       IN  /\ last.by = "get_creator_posts"
           /\ \E k \in 1..Len(last.posts) : PostRecord(last.posts[k]) \in store
           /\ ctxCreators[last.creator].updated > 0
           /\ \A q \in PostsOf(last.creator) :
                  (~IsRestricted(q) /\ ~(skipFree /\ FeeRequired(q) = 0)) =>
                      \E k \in 1..Len(last.posts) : last.posts[k] = q

\* C35: download_files delivers every reply without a panic, whatever
\* sync_posts has done with the event by then, and goes on with the later
\* requests
C35_ReplyDeliveryNeverPanics ==
    /\ ~panicked
    /\ \A i \in 1..Len(tasks) : tasks[i].dl # "panicked"

\* the creators with an author record in the store: sync_creator writes the
\* record in the transaction of a post, and it is kept when that is committed
AuthorRecords(st) ==
    {c \in Creators : \E q \in PostsOf(c) : \E r \in st : r.source = get_source_link(c, q)}

\* C36: every creator in the author cache has an author record in the
\* store as it is outside the open transaction; an id cached in a
\* transaction that was dropped is not handed to a later post
C36_CachedAuthorsAreStored ==
    /\ pcSync = "recv" => authors \subseteq AuthorRecords(store)
    /\ \A i \in 1..Len(tasks) :
          (tasks[i].author = "cached" /\ pcSync = "await" /\ curEvent = i) =>
              CreatorOf(tasks[i].post) \in AuthorRecords(store)

\* the places (batch, index) of the posts sent on posts_pipeline in this run
QueuedPlaces ==
    {x \in (1..Len(sentLog)) \X (1..MaxPosts) : x[2] <= Len(sentLog[x[1]].posts)}

\* C37: in a run no post is queued to get_posts twice: a post queued again
\* from the failed-post ledger is not queued by the discovery of its creator
C37_NoPostQueuedTwice ==
    \A x, y \in QueuedPlaces :
        sentLog[x[1]].posts[x[2]] = sentLog[y[1]].posts[y[2]] => x = y

\* C38: a post whose reply map holds the URL of every placement and whose
\* directory creation and copies all succeed is committed, two placements
\* with the same URL included: the save loop gives a post up only at a
\* failed create_dir_all or copy, or at a placement whose URL the reply map
\* lacks
C38_CompleteMapIsCommitted ==
    [][\A i \in 1..Len(tasks) :
          (i <= Len(tasks') /\ tasks[i].sync = "saving" /\ tasks'[i].sync = "aborted") =>
              \/ tasks'[i].why \in {"dir", "copy"}
              \/ \E k \in 1..Len(placements) : placements[k] \notin tasks[i].map]_vars

\* the stages of SpecSync with every stage polled as long as it can step
SpecSyncLive == InitSync /\ [][NextSync]_vars /\ WF_vars(NextSync)

\* every stage has finished, with the queues empty and every event
\* committed or given up
PipelineAtRest ==
    /\ AllDone
    /\ postsQ = <<>>
    /\ filesQ = <<>>
    /\ syncQ = <<>>
    /\ \A i \in 1..Len(tasks) :
          /\ tasks[i].fetch # "fetching"
          /\ tasks[i].events > 0 => tasks[i].sync \in {"committed", "aborted"}

\* C39: the pipeline ends without a deadlock: with the creators sent and
\* every call and download returned, each stage finishes, the queues are
\* drained and every sync event is committed or given up
C39_PipelineTerminates == <>PipelineAtRest

\* C40: style_text only inserts markers: the output without its ** markers
\* is the text, every character once and in its place, and without spans the
\* output is the text
C40_OutputWithoutMarkersIsText ==
    cacheCall.op = "style_text" =>
        /\ SelectSeq(cacheCall.output, LAMBDA x : x # "**") = Text(cacheCall.length)
        /\ cacheCall.styles = <<>> => cacheCall.output = Text(cacheCall.length)

\* a text with two overlapping spans was styled: markers stand inside it
C40_OverlappingSpansStyledReached ==
    /\ cacheCall.op = "style_text"
    /\ cacheCall.length = 4
    /\ cacheCall.styles = <<[offset |-> 0, length |-> 2], [offset |-> 1, length |-> 2]>>
    /\ cacheCall.output = <<"**", "a", "**", "b", "**", "c", "**", "d">>

====
